---- MODULE Spec2Model ----
(***************************************************************************)
(* Authentication and credential lifecycle of rota-manager: the signup,    *)
(* login, 2FA verification, logout and verify-token route handlers over    *)
(* the user store, the banned token store and the 2FA code store.          *)
(*                                                                         *)
(* Every request is a process: it takes one step per store operation it    *)
(* awaits (the store lock is taken and released inside the step), so the   *)
(* handlers of concurrent requests interleave between store operations.    *)
(***************************************************************************)
EXTENDS Integers, Naturals, Sequences, FiniteSets, TLC

(* ------------------------------ bounds --------------------------------- *)

\* number of requests ever started in one behaviour
MaxReqs == 3

\* the same, in the behaviours of the 2FA handlers alone
Max2FAReqs == 4

\* the same, in the behaviours of one account's 2FA logins and its deletion
MaxDeleteReqs == 5

\* the same, in the behaviours of the handlers' lock operations
MaxLockReqs == 2

\* number of times the clock advances in one behaviour
MaxTicks == 3

\* the clock advances by half a minute or by ten minutes
TickSeconds == {30, 600}

(* ------------------------- program constants --------------------------- *)

TOKEN_TTL_SECONDS == 600

TEN_MINUTES_IN_SECONDS == 600

\* jsonwebtoken's Validation::default() accepts a token until exp + leeway
LEEWAY_SECONDS == 60

\* validate_password: min_characters and max_characters
min_characters == 8

max_characters == 128

(* --------------------------- input universes --------------------------- *)

\* a raw password has up to this many one-byte characters and up to this
\* many four-byte characters
MaxPasswordChars == 130

\* email addresses; the raw string "bad" is not one
Emails == {"e1", "e2", "e3"}

\* passwords of 8 to 128 characters; the raw string "short" has fewer
Passwords == {"pw1", "pw2"}

\* the values rand::random::<u32>() % 1_000_000 can take, two of them
Codes == {111111, 222222}

\* a raw 2FA code of 7 is not six digits; a raw login attempt id of 0 is not
\* a UUID, and 1, 2, ... are the UUIDs Uuid::new_v4() hands out, in order

Reqs ==
    1..(IF MaxDeleteReqs > Max2FAReqs /\ MaxDeleteReqs > MaxReqs
        THEN MaxDeleteReqs
        ELSE IF MaxReqs > Max2FAReqs THEN MaxReqs ELSE Max2FAReqs)

(* ------------------------------- state --------------------------------- *)

VARIABLES
    users,      \* user store: email -> User
    codes,      \* 2FA code store: email -> (login attempt id, code, stored at)
    banned,     \* banned token store: token -> instant it was (last) added
    sent,       \* emails handed to the email client: {[to, body]}
    now,        \* Utc::now(), in seconds
    ticks,      \* number of times the clock has advanced
    backend,    \* "memory" (Hashmap/Hashset stores) or "redis"
    nextId,     \* the next fresh UUID of LoginAttemptId::default()
    nreq,       \* number of requests started so far
    limit,      \* number of requests that can be started
    reqs,       \* request -> its handler's local state and its response
    hist        \* history of the store: who redeemed, who logged out, ...

vars == <<users, codes, banned, sent, now, ticks, backend, nextId, nreq, limit, reqs, hist>>

(* ------------------------------ values --------------------------------- *)

\* Email::parse: validator::validate_email
EmailParse(raw) == raw # "bad"

\* Password::parse: validate_password, 8..128 characters
PasswordParse(raw) == raw # "short"

\* LoginAttemptId::parse: uuid::Uuid::try_parse
LoginAttemptIdParse(raw) == raw # 0

\* TwoFACode::parse: TWO_FA_CODE_REGEX, six digits
TwoFACodeParse(raw) == raw >= 100000 /\ raw <= 999999

\* a token string that is not a JWT signed with JWT_SECRET
BadToken == [sub |-> "none", exp |-> 0, sig |-> FALSE]

\* create_token: the JWT is a function of the claims {sub, exp} alone
create_token(claims) == [sub |-> claims.sub, exp |-> claims.exp, sig |-> TRUE]

\* generate_auth_token: exp = Utc::now() + TOKEN_TTL_SECONDS
generate_auth_token(email) ==
    create_token([sub |-> email, exp |-> now + TOKEN_TTL_SECONDS])

\* a generate_auth_cookie whose cookie carries no token
generate_auth_cookie_empty(email) == BadToken

\* generate_auth_cookie: the cookie "jwt" carrying the new token
generate_auth_cookie(email) == generate_auth_token(email)

(* ------------------------------ stores --------------------------------- *)

EmptyStore == [e \in {} |-> 0]

\* User::new
User(email, password, requires_2fa) ==
    [email |-> email, password |-> password, requires_2fa |-> requires_2fa]

\* UserStore::get_user
get_user(email) ==
    IF email \in DOMAIN users THEN "Ok" ELSE "UserNotFound"

\* UserStore::validate_user
validate_user(email, password) ==
    IF get_user(email) # "Ok" THEN "UserNotFound"
    ELSE IF users[email].password = password THEN "Ok"
    ELSE "InvalidCredentials"

\* add_user that inserts without looking for the email first
add_user_overwrites(user) ==
    [e \in DOMAIN users \cup {user.email} |->
        IF e = user.email THEN user ELSE users[e]]

\* UserStore::add_user: the store after the call
add_user(user) ==
    IF user.email \in DOMAIN users THEN users
    ELSE [e \in DOMAIN users \cup {user.email} |->
            IF e = user.email THEN user ELSE users[e]]

\* add_user that reports success whether or not the email is taken
add_user_result_ok(user) == "Ok"

\* UserStore::add_user: the result of the call
add_user_result(user) ==
    IF user.email \in DOMAIN users THEN "UserAlreadyExists" ELSE "Ok"

\* is the entry stored at instant at with a ttl still there? Redis expires
\* it, the in-memory stores keep it
Live(at, ttl) == backend = "memory" \/ now < at + ttl

\* add_code that stores the challenge for every email
add_code_everyone(email, login_attempt_id, code) ==
    [e \in Emails |-> [id |-> login_attempt_id, code |-> code, at |-> now]]

\* add_code that keeps the challenge an email already has
add_code_keeps_first(email, login_attempt_id, code) ==
    IF email \in DOMAIN codes THEN codes
    ELSE [e \in DOMAIN codes \cup {email} |->
            IF e = email
            THEN [id |-> login_attempt_id, code |-> code, at |-> now]
            ELSE codes[e]]

\* TwoFACodeStore::add_code: the store after the call
add_code(email, login_attempt_id, code) ==
    [e \in DOMAIN codes \cup {email} |->
        IF e = email
        THEN [id |-> login_attempt_id, code |-> code, at |-> now]
        ELSE codes[e]]

\* remove_code that empties the store
remove_code_clears(email) == EmptyStore

\* TwoFACodeStore::remove_code: HashMap::remove and Redis DEL return Ok(())
\* whether or not the key is there
remove_code_result(email) == "Ok"

\* TwoFACodeStore::remove_code: the store after the call
remove_code(email) ==
    [e \in DOMAIN codes \ {email} |-> codes[e]]

\* TwoFACodeStore::get_code: is there a challenge for email
get_code_found(email) ==
    /\ email \in DOMAIN codes
    /\ Live(codes[email].at, TEN_MINUTES_IN_SECONDS)

\* add_token that stores nothing
add_token_drops(token) == banned

\* BannedTokenStore::add_token: the store after the call
add_token(token) ==
    [t \in DOMAIN banned \cup {token} |->
        IF t = token
        THEN (IF backend = "memory" /\ token \in DOMAIN banned
              THEN banned[token] ELSE now)
        ELSE banned[t]]

\* add_token that refuses a token it already holds
add_token_result_rejects(token) ==
    IF token \in DOMAIN banned THEN "UnexpectedError" ELSE "Ok"

\* BannedTokenStore::add_token: HashSet::insert and Redis SETEX return
\* Ok(()) whether or not the token is already there
add_token_result(token) == "Ok"

\* a check_token that finds no token banned
check_token_never(token) == FALSE

\* BannedTokenStore::check_token: TRUE when the token is banned
check_token(token) ==
    /\ token \in DOMAIN banned
    /\ Live(banned[token], TOKEN_TTL_SECONDS)

\* a decode that accepts every string
decode_any(token) == TRUE

\* jsonwebtoken::decode with Validation::default(): signature and expiry
decode(token) ==
    /\ token.sig
    /\ ~(token.exp < now - LEEWAY_SECONDS)

\* a validate_token that decodes first and looks the token up after
validate_token_decode_first(token) ==
    IF ~decode(token) THEN "InvalidToken"
    ELSE IF check_token(token) THEN "BannedToken"
    ELSE "Ok"

\* validate_token: the banned token store first, then the signature
validate_token(token) ==
    IF check_token(token) THEN "BannedToken"
    ELSE IF decode(token) THEN "Ok"
    ELSE "InvalidToken"

(* ----------------------------- requests -------------------------------- *)

NoBody == [message |-> "", loginAttemptId |-> 0]

\* a request slot that has not been started
Idle ==
    [kind |-> "none", pc |-> "idle", email |-> "", password |-> "",
     requires_2fa |-> FALSE, id |-> 0, code |-> 0, jar |-> {},
     status |-> 0, error |-> "", outJar |-> {}, body |-> NoBody,
     cookie |-> {}, cause |-> "", at |-> 0,
     target |-> 0, name |-> "", list |-> {},
     after |-> FALSE, revoked |-> FALSE, first |-> FALSE, stale |-> FALSE,
     valid |-> FALSE]

\* the request of the given kind that starts now
New(kind) == [Idle EXCEPT !.kind = kind, !.at = now]

\* AuthAPIError::into_response: the status code of each error
StatusOf(error) ==
    CASE error = "UserAlreadyExists" -> 409
      [] error = "ValidationError" -> 400
      [] error = "UserNotFound" -> 404
      [] error = "IncorrectCredentials" -> 401
      [] error = "UnexpectedError" -> 500
      [] error = "MissingToken" -> 400
      [] error = "InvalidToken" -> 401

\* the handler returns (jar, Err(error)): the jar it was given, unchanged
Fail(req, error, cause) ==
    [req EXCEPT !.pc = "done", !.status = StatusOf(error), !.error = error,
                !.outJar = req.jar, !.cause = cause]

\* the tokens a caller can hold: those a response has put in a cookie
IssuedTokens == UNION {reqs[r].outJar : r \in Reqs}

\* the cookie jars a caller can present: empty, a token it was given, or
\* a string that is no token
Jars == {{}} \cup {{t} : t \in IssuedTokens \cup {BadToken}}

\* a login that gives the read guard back before handle_2fa
UserStoreNeverLocked == FALSE

\* a Login holds the user store read guard from validate_user until it returns
UserStoreReadLocked ==
    \E r \in Reqs : reqs[r].kind = "login" /\ reqs[r].pc \in {"add_code", "send_email"}

CanStart == nreq < limit

(* ------------------------------- Init ---------------------------------- *)

\* e1 has signed up with 2FA, e2 without; e3 has no account
InitUsers ==
    [e \in {"e1", "e2"} |->
        User(e, "pw1", e = "e1")]

\* What has happened so far, for the properties to refer to:
\*   stored    the challenges a Login has put (and the Login that did)
\*   lastPut   email -> the latest challenge a Login has put for it
\*   claimed   the challenges a Verify2FA has matched against the store
\*   redeemed  the challenges a Verify2FA has returned success for
\*   loggedOut the tokens a Logout has returned success for
\*   revoked   the tokens a Logout or a delete-user has returned success for
\*   signedUp  the emails signed up and not deleted since
InitHist ==
    [stored |-> {}, lastPut |-> EmptyStore, claimed |-> {}, redeemed |-> {},
     loggedOut |-> {}, revoked |-> {}, signedUp |-> DOMAIN InitUsers]

Triple(email, id, code) == [email |-> email, id |-> id, code |-> code]

Init ==
    /\ users = InitUsers
    /\ codes = EmptyStore
    /\ banned = EmptyStore
    /\ sent = {}
    /\ now = 0
    /\ ticks = 0
    /\ backend = "memory"
    /\ nextId = 1
    /\ nreq = 0
    /\ limit = MaxReqs
    /\ reqs = [r \in Reqs |-> Idle]
    /\ hist = InitHist

(* ------------------------------ Signup --------------------------------- *)

\* the handler returns Ok with a status, a cookie jar and a body
Done(req, status, outJar, body) ==
    [req EXCEPT !.pc = "done", !.status = status, !.outJar = outJar,
                !.body = body]

\* routes/auth/signup.rs: parse, then add_user under the write lock
Signup(email, password, requires_2fa) ==
    /\ CanStart
    /\ LET r == nreq + 1
           req == [New("signup") EXCEPT !.email = email,
                       !.password = password, !.requires_2fa = requires_2fa,
                       !.after = email \in hist.signedUp]
           user == User(email, password, requires_2fa)
       IN  IF ~EmailParse(email) \/ ~PasswordParse(password)
           THEN /\ reqs' = [reqs EXCEPT ![r] = Fail(req, "ValidationError", "")]
                /\ UNCHANGED <<users, hist>>
           ELSE /\ ~UserStoreReadLocked
                /\ hist' = [hist EXCEPT !.signedUp =
                              IF add_user_result(user) = "Ok"
                              THEN @ \cup {email} ELSE @]
                /\ users' = add_user(user)
                /\ reqs' = [reqs EXCEPT ![r] =
                       IF add_user_result(user) = "Ok"
                       THEN Done(req, 201, req.jar,
                                 [NoBody EXCEPT !.message = "User created successfully"])
                       ELSE Fail(req, "UserAlreadyExists", "UserAlreadyExists")]
    /\ nreq' = nreq + 1
    /\ UNCHANGED <<codes, banned, sent, now, ticks, backend, limit, nextId>>

(* ------------------------------- Login --------------------------------- *)

\* an error mapping that tells the caller the account does not exist
LoginError_tells(err) ==
    CASE err = "InvalidCredentials" -> "IncorrectCredentials"
      [] err = "UserNotFound" -> "UserNotFound"
      [] OTHER -> "UnexpectedError"

\* routes/login.rs login: the UserStoreError of validate_user as AuthAPIError
LoginError(err) ==
    CASE err = "InvalidCredentials" -> "IncorrectCredentials"
      [] err = "UserNotFound" -> "IncorrectCredentials"
      [] OTHER -> "UnexpectedError"

\* routes/login.rs login: parse, validate_user and get_user under one read
\* guard, then handle_no_2fa, or the first half of handle_2fa (the fresh
\* attempt id and code)
Login(email, password) ==
    /\ CanStart
    /\ LET r == nreq + 1
           req == [New("login") EXCEPT !.email = email, !.password = password]
           valid == validate_user(email, password)
       IN  \/ /\ ~EmailParse(email) \/ ~PasswordParse(password)
              /\ reqs' = [reqs EXCEPT ![r] = Fail(req, "ValidationError", "")]
              /\ UNCHANGED nextId
           \/ /\ EmailParse(email) /\ PasswordParse(password)
              /\ valid # "Ok"
              /\ reqs' = [reqs EXCEPT ![r] =
                            Fail(req, LoginError(valid), valid)]
              /\ UNCHANGED nextId
           \/ /\ EmailParse(email) /\ PasswordParse(password)
              /\ valid = "Ok"
              /\ ~users[email].requires_2fa
              /\ reqs' = [reqs EXCEPT ![r] =
                            Done([req EXCEPT
                                    !.cookie = {generate_auth_cookie(email)},
                                    !.valid = validate_token(generate_auth_cookie(email)) = "Ok"],
                                 200, {generate_auth_cookie(email)}, NoBody)]
              /\ UNCHANGED nextId
           \/ /\ EmailParse(email) /\ PasswordParse(password)
              /\ valid = "Ok"
              /\ users[email].requires_2fa
              /\ \E two_fa_code \in Codes :
                    reqs' = [reqs EXCEPT ![r] =
                              [req EXCEPT !.pc = "add_code", !.id = nextId,
                                          !.code = two_fa_code]]
              /\ nextId' = nextId + 1
    /\ nreq' = nreq + 1
    /\ UNCHANGED <<users, codes, banned, sent, now, ticks, backend, limit, hist>>

\* handle_2fa: two_fa_code_store.write().add_code(email, id, code)
LoginAddCode(r) ==
    /\ reqs[r].kind = "login" /\ reqs[r].pc = "add_code"
    /\ codes' = add_code(reqs[r].email, reqs[r].id, reqs[r].code)
    /\ reqs' = [reqs EXCEPT ![r].pc = "send_email"]
    /\ hist' = [hist EXCEPT
                  !.stored = @ \cup {[req |-> r, email |-> reqs[r].email,
                                      id |-> reqs[r].id, code |-> reqs[r].code]},
                  !.lastPut = [e \in DOMAIN @ \cup {reqs[r].email} |->
                                 IF e = reqs[r].email
                                 THEN [id |-> reqs[r].id, code |-> reqs[r].code]
                                 ELSE @[e]]]
    /\ UNCHANGED <<users, banned, sent, now, ticks, backend, limit, nextId, nreq>>

\* a 206 response that carries the code where the attempt id belongs
TwoFactorAuthResponse_code(login_attempt_id, two_fa_code) ==
    [message |-> "2FA required", loginAttemptId |-> two_fa_code]

\* the body of the 206 response of handle_2fa
TwoFactorAuthResponse(login_attempt_id, two_fa_code) ==
    [message |-> "2FA required", loginAttemptId |-> login_attempt_id]

\* handle_2fa: email_client.send_email(email, subject, code), then the
\* 206 response carrying the attempt id
LoginSendEmail(r) ==
    /\ reqs[r].kind = "login" /\ reqs[r].pc = "send_email"
    /\ sent' = sent \cup {[to |-> reqs[r].email, body |-> reqs[r].code]}
    /\ reqs' = [reqs EXCEPT ![r] =
                  Done(reqs[r], 206, reqs[r].jar,
                       TwoFactorAuthResponse(reqs[r].id, reqs[r].code))]
    /\ UNCHANGED <<users, codes, banned, now, ticks, backend, limit, nextId, nreq, hist>>

\* a handle_2fa that answers 206 with the attempt id although the email
\* was not sent
DeliveryFailure_answers(req) ==
    [Done(req, 206, req.jar, TwoFactorAuthResponse(req.id, req.code))
        EXCEPT !.cause = "DeliveryError"]

\* handle_2fa: Err(e) of send_email is returned as UnexpectedError(e), with
\* the jar the handler was given
DeliveryFailure(req) == Fail(req, "UnexpectedError", "DeliveryError")

\* handle_2fa when email_client.send_email fails: nothing is sent, the
\* handler returns the error, the code store is not touched again
LoginSendEmailFails(r) ==
    /\ reqs[r].kind = "login" /\ reqs[r].pc = "send_email"
    /\ reqs' = [reqs EXCEPT ![r] = DeliveryFailure(reqs[r])]
    /\ UNCHANGED <<users, codes, banned, sent, now, ticks, backend, limit, nextId, nreq, hist>>

(* ------------------------------ Verify2FA ------------------------------ *)

\* a comparison that rejects only when both values are wrong
Mismatch_both(login_attempt_id, two_fa_code, expected) ==
    /\ login_attempt_id # expected.id
    /\ two_fa_code # expected.code

\* routes/verify_2fa.rs: the presented values against the stored ones
Mismatch(login_attempt_id, two_fa_code, expected) ==
    \/ login_attempt_id # expected.id
    \/ two_fa_code # expected.code

\* an error mapping that tells the caller no challenge is pending
Verify2FAError_tells(cause) ==
    CASE cause = "LoginAttemptIdNotFound" -> "UserNotFound"
      [] cause = "WrongLoginAttemptId" -> "IncorrectCredentials"
      [] cause = "WrongTwoFACode" -> "IncorrectCredentials"

\* routes/verify_2fa.rs: get_code Err(_) and the mismatch are both
\* answered with IncorrectCredentials
Verify2FAError(cause) ==
    CASE cause = "LoginAttemptIdNotFound" -> "IncorrectCredentials"
      [] cause = "WrongLoginAttemptId" -> "IncorrectCredentials"
      [] cause = "WrongTwoFACode" -> "IncorrectCredentials"

\* which of the fields made the request fail ("" when none did)
Verify2FACause(email, login_attempt_id, two_fa_code) ==
    IF ~get_code_found(email) THEN "LoginAttemptIdNotFound"
    ELSE IF ~Mismatch(login_attempt_id, two_fa_code, codes[email]) THEN ""
    ELSE IF login_attempt_id # codes[email].id THEN "WrongLoginAttemptId"
    ELSE "WrongTwoFACode"

\* routes/verify_2fa.rs, first half: parse, get_code under the read lock,
\* compare both values, generate the auth cookie
Verify2FA(email, login_attempt_id, two_fa_code) ==
    /\ CanStart
    /\ LET r == nreq + 1
           triple == Triple(email, login_attempt_id, two_fa_code)
           pair == [id |-> login_attempt_id, code |-> two_fa_code]
           put == email \in DOMAIN hist.lastPut
           req == [New("verify_2fa") EXCEPT !.email = email,
                       !.id = login_attempt_id, !.code = two_fa_code,
                       !.after = triple \in hist.redeemed,
                       !.first = /\ put /\ hist.lastPut[email] = pair
                                 /\ triple \notin hist.claimed,
                       !.stale = put /\ hist.lastPut[email] # pair]
           cause == Verify2FACause(email, login_attempt_id, two_fa_code)
       IN  IF \/ ~EmailParse(email)
              \/ ~LoginAttemptIdParse(login_attempt_id)
              \/ ~TwoFACodeParse(two_fa_code)
           THEN /\ reqs' = [reqs EXCEPT ![r] = Fail(req, "ValidationError", "")]
                /\ UNCHANGED hist
           ELSE IF cause # ""
           THEN /\ reqs' = [reqs EXCEPT ![r] =
                             Fail(req, Verify2FAError(cause), cause)]
                /\ UNCHANGED hist
           ELSE /\ reqs' = [reqs EXCEPT ![r] =
                             [req EXCEPT !.pc = "remove_code",
                                         !.cookie = {generate_auth_cookie(email)}]]
                /\ hist' = [hist EXCEPT !.claimed = @ \cup {triple}]
    /\ nreq' = nreq + 1
    /\ UNCHANGED <<users, codes, banned, sent, now, ticks, backend, limit, nextId>>

\* routes/verify_2fa.rs, second half: remove_code under the write lock,
\* then 200 with the auth cookie added to the jar
Verify2FARemoveCode(r) ==
    /\ reqs[r].kind = "verify_2fa" /\ reqs[r].pc = "remove_code"
    /\ codes' = remove_code(reqs[r].email)
    /\ reqs' = [reqs EXCEPT ![r] = Done(reqs[r], 200, reqs[r].cookie, NoBody)]
    /\ hist' = [hist EXCEPT !.redeemed = @ \cup
                  {Triple(reqs[r].email, reqs[r].id, reqs[r].code)}]
    /\ UNCHANGED <<users, banned, sent, now, ticks, backend, limit, nextId, nreq>>

\* RedisTwoFACodeStore::remove_code fails when the DEL does; HashMap::remove
\* has no failure
RemoveCodeCanFail == backend = "redis"

\* a verify_2fa that answers 200 with the auth cookie although remove_code
\* failed
RemoveFailure_succeeds(req) ==
    [Done(req, 200, req.cookie, NoBody) EXCEPT !.cause = "StoreError"]

\* routes/verify_2fa.rs: Err(err) of remove_code is returned as
\* UnexpectedError(err), with the jar the handler was given
RemoveFailure(req) == Fail(req, "UnexpectedError", "StoreError")

\* routes/verify_2fa.rs, second half, when remove_code fails: the key has
\* not been deleted, the handler returns the error and drops the cookie
Verify2FARemoveCodeFails(r) ==
    /\ reqs[r].kind = "verify_2fa" /\ reqs[r].pc = "remove_code"
    /\ RemoveCodeCanFail
    /\ reqs' = [reqs EXCEPT ![r] = RemoveFailure(reqs[r])]
    /\ UNCHANGED <<users, codes, banned, sent, now, ticks, backend, limit, nextId, nreq, hist>>

(* ------------------------------- Logout -------------------------------- *)

\* routes/logout.rs, first half: the cookie, then validate_token
Logout(jar) ==
    /\ CanStart
    /\ LET r == nreq + 1
           req == [New("logout") EXCEPT !.jar = jar,
                       !.after = jar \cap hist.loggedOut # {}]
       IN  IF jar = {}
           THEN reqs' = [reqs EXCEPT ![r] = Fail(req, "MissingToken", "")]
           ELSE LET token == CHOOSE t \in jar : TRUE
                IN  IF validate_token(token) # "Ok"
                    THEN reqs' = [reqs EXCEPT ![r] =
                             Fail(req, "InvalidToken", validate_token(token))]
                    ELSE reqs' = [reqs EXCEPT ![r] =
                             [req EXCEPT !.pc = "add_token", !.cookie = {token}]]
    /\ nreq' = nreq + 1
    /\ UNCHANGED <<users, codes, banned, sent, now, ticks, backend, limit, nextId, hist>>

\* routes/logout.rs, second half: add_token under the write lock, then 200
\* with the cookie removed from the jar
LogoutAddToken(r) ==
    /\ reqs[r].kind = "logout" /\ reqs[r].pc = "add_token"
    /\ LET token == CHOOSE t \in reqs[r].cookie : TRUE
       IN  /\ banned' = add_token(token)
           /\ hist' = [hist EXCEPT !.revoked = @ \cup {token},
                                   !.loggedOut = @ \cup {token}]
    /\ reqs' = [reqs EXCEPT ![r] = Done(reqs[r], 200, {}, NoBody)]
    /\ UNCHANGED <<users, codes, sent, now, ticks, backend, limit, nextId, nreq>>

(* ----------------------------- verify-token ---------------------------- *)

\* routes/auth/verify_token.rs: validate_token, any error is InvalidToken
VerifyToken(token) ==
    /\ CanStart
    /\ LET r == nreq + 1
           req == [New("verify_token") EXCEPT !.cookie = {token},
                       !.after = token \in hist.loggedOut,
                       !.revoked = token \in hist.revoked]
       IN  reqs' = [reqs EXCEPT ![r] =
                     IF validate_token(token) = "Ok"
                     THEN Done(req, 200, req.jar, NoBody)
                     ELSE Fail(req, "InvalidToken", validate_token(token))]
    /\ nreq' = nreq + 1
    /\ UNCHANGED <<users, codes, banned, sent, now, ticks, backend, limit, nextId, hist>>

(* ------------------------- store I/O failures -------------------------- *)

\* RedisBannedTokenStore::check_token fails when the connection does; the
\* in-memory store has no failure
CheckTokenCanFail == backend = "redis"

\* verify_token when check_token returns UnexpectedError: validate_token
\* maps it to the same error as BannedToken, the handler to InvalidToken
VerifyTokenStoreError(token) ==
    /\ CanStart
    /\ CheckTokenCanFail
    /\ LET r == nreq + 1
           req == [New("verify_token") EXCEPT !.cookie = {token}]
       IN  reqs' = [reqs EXCEPT ![r] = Fail(req, "InvalidToken", "StoreError")]
    /\ nreq' = nreq + 1
    /\ UNCHANGED <<users, codes, banned, sent, now, ticks, backend, limit, nextId, hist>>

\* logout when check_token returns UnexpectedError: likewise InvalidToken
LogoutStoreError(jar) ==
    /\ CanStart
    /\ CheckTokenCanFail
    /\ jar # {}
    /\ LET r == nreq + 1
           req == [New("logout") EXCEPT !.jar = jar]
       IN  reqs' = [reqs EXCEPT ![r] = Fail(req, "InvalidToken", "StoreError")]
    /\ nreq' = nreq + 1
    /\ UNCHANGED <<users, codes, banned, sent, now, ticks, backend, limit, nextId, hist>>

(* ---------------------------- delete-user ------------------------------ *)

\* utils::auth::get_claims: the jwt cookie of the jar, then validate_token
get_claims(jar) ==
    IF jar = {} THEN "MissingToken"
    ELSE IF validate_token(CHOOSE t \in jar : TRUE) # "Ok" THEN "InvalidToken"
    ELSE "Ok"

\* delete_user, first part: get_claims, whose every error is answered with
\* UnexpectedError, then the email of the claims (the project store calls
\* that follow touch no state kept here)
DeleteUser(jar) ==
    /\ CanStart
    /\ LET r == nreq + 1
           req == [New("delete_user") EXCEPT !.jar = jar,
                       !.after = jar \cap hist.loggedOut # {}]
       IN  IF get_claims(jar) # "Ok"
           THEN reqs' = [reqs EXCEPT ![r] =
                    Fail(req, "UnexpectedError", get_claims(jar))]
           ELSE reqs' = [reqs EXCEPT ![r] =
                    [req EXCEPT !.pc = "delete_user", !.cookie = jar,
                                !.email = (CHOOSE t \in jar : TRUE).sub]]
    /\ nreq' = nreq + 1
    /\ UNCHANGED <<users, codes, banned, sent, now, ticks, backend, limit, nextId, hist>>

\* UserStore::delete_user: the result of HashMap::remove
delete_user_result(email) ==
    IF email \in DOMAIN users THEN "Ok" ELSE "UserNotFound"

\* delete_user that leaves the record in the store
delete_user_keeps(email) == users

\* UserStore::delete_user: the store after the call
delete_user(email) ==
    [e \in DOMAIN users \ {email} |-> users[e]]

\* routes/auth/delete_user.rs: user_store.write().delete_user(email); every
\* error, UserNotFound too, is mapped to UnexpectedError
DeleteUserDeleteUser(r) ==
    /\ reqs[r].kind = "delete_user" /\ reqs[r].pc = "delete_user"
    /\ ~UserStoreReadLocked
    /\ users' = delete_user(reqs[r].email)
    /\ reqs' = [reqs EXCEPT ![r] =
                  IF reqs[r].email \in DOMAIN users
                  THEN [reqs[r] EXCEPT !.pc = "add_token"]
                  ELSE Fail(reqs[r], "UnexpectedError", "UserNotFound")]
    /\ hist' = [hist EXCEPT !.signedUp = @ \ {reqs[r].email}]
    /\ UNCHANGED <<codes, banned, sent, now, ticks, backend, limit, nextId, nreq>>

\* routes/auth/delete_user.rs, last part: add_token of the presented token,
\* then 200 with the cookie removed from the jar
DeleteUserAddToken(r) ==
    /\ reqs[r].kind = "delete_user" /\ reqs[r].pc = "add_token"
    /\ LET token == CHOOSE t \in reqs[r].cookie : TRUE
       IN  /\ banned' = add_token(token)
           /\ hist' = [hist EXCEPT !.revoked = @ \cup {token}]
    /\ reqs' = [reqs EXCEPT ![r] =
                  Done(reqs[r], 200, {},
                       [NoBody EXCEPT !.message = "User deleted"])]
    /\ UNCHANGED <<users, codes, sent, now, ticks, backend, limit, nextId, nreq>>

(* ------------------------ authenticated endpoints ---------------------- *)

\* routes/projects/get_member.rs: get_claims, then the member of the
\* project store (found or not)
GetMember(jar, found) ==
    /\ CanStart
    /\ LET r == nreq + 1
           req == [New("get_member") EXCEPT !.jar = jar, !.cookie = jar,
                       !.after = jar \cap hist.loggedOut # {},
                       !.revoked = jar \cap hist.revoked # {}]
       IN  reqs' = [reqs EXCEPT ![r] =
                     IF get_claims(jar) # "Ok"
                     THEN [Fail(req, "InvalidToken", get_claims(jar))
                             EXCEPT !.error = "AuthenticationError"]
                     ELSE IF found THEN Done(req, 200, jar, NoBody)
                     ELSE [Done(req, 404, jar, NoBody)
                             EXCEPT !.error = "IDNotFoundError"]]
    /\ nreq' = nreq + 1
    /\ UNCHANGED <<users, codes, banned, sent, now, ticks, backend, limit, nextId, hist>>

(* ------------------------------- clock --------------------------------- *)

\* time passes between two steps of the handlers
Tick(seconds) ==
    /\ ticks < MaxTicks
    /\ ticks' = ticks + 1
    /\ now' = now + seconds
    /\ UNCHANGED <<users, codes, banned, sent, backend, nextId, nreq, limit, reqs, hist>>

(* ------------------------------ behaviours ----------------------------- *)

\* the requests a caller can send. A handler returns at the first field that
\* does not parse, so one request per unparsable field stands for all of them
SignupInputs ==
    {<<e, p, f>> : e \in {"e2", "e3"}, p \in Passwords, f \in BOOLEAN}
        \cup {<<"bad", "pw1", FALSE>>, <<"e1", "short", FALSE>>}

\* pw1 is the password of e1 and e2, pw2 a wrong one
LoginInputs ==
    {<<e, "pw1">> : e \in Emails} \cup {<<"e1", "pw2">>}
        \cup {<<"bad", "pw1">>, <<"e1", "short">>}

\* the attempt ids handed out so far, and the next one (not yet handed out)
Verify2FAInputs ==
    {<<e, i, c>> : e \in {"e1", "e3"}, i \in 1..nextId, c \in Codes}
        \cup {<<"bad", 1, 111111>>, <<"e1", 0, 111111>>, <<"e1", 1, 7>>}

Next ==
    \/ \E in \in SignupInputs : Signup(in[1], in[2], in[3])
    \/ \E in \in LoginInputs : Login(in[1], in[2])
    \/ \E r \in Reqs : LoginAddCode(r)
    \/ \E r \in Reqs : LoginSendEmail(r)
    \/ \E in \in Verify2FAInputs : Verify2FA(in[1], in[2], in[3])
    \/ \E r \in Reqs : Verify2FARemoveCode(r)
    \/ \E j \in Jars : Logout(j)
    \/ \E r \in Reqs : LogoutAddToken(r)
    \/ \E t \in IssuedTokens \cup {BadToken} : VerifyToken(t)
    \/ \E j \in Jars : DeleteUser(j)
    \/ \E r \in Reqs : DeleteUserDeleteUser(r)
    \/ \E r \in Reqs : DeleteUserAddToken(r)
    \/ \E j \in Jars, f \in BOOLEAN : GetMember(j, f)

\* the handlers over the in-memory stores, within one second
Spec == Init /\ [][Next]_vars

\* the stores are the in-memory ones or the Redis ones
InitTimed ==
    /\ users = InitUsers
    /\ codes = EmptyStore
    /\ banned = EmptyStore
    /\ sent = {}
    /\ now = 0
    /\ ticks = 0
    /\ backend \in {"memory", "redis"}
    /\ nextId = 1
    /\ nreq = 0
    /\ limit = MaxReqs
    /\ reqs = [r \in Reqs |-> Idle]
    /\ hist = InitHist

\* the accounts that log in with a password alone
PasswordOnly == {e \in DOMAIN InitUsers : ~InitUsers[e].requires_2fa}

\* the requests of a caller that holds the credentials of such an account
\* and the tokens issued for it
NextTimed ==
    \/ \E e \in PasswordOnly : Login(e, InitUsers[e].password)
    \/ \E t \in IssuedTokens : Logout({t})
    \/ \E r \in Reqs : LogoutAddToken(r)
    \/ \E t \in IssuedTokens : VerifyToken(t)
    \/ \E t \in IssuedTokens, f \in BOOLEAN : GetMember({t}, f)
    \/ \E t \in IssuedTokens : DeleteUser({t})
    \/ \E r \in Reqs : DeleteUserDeleteUser(r)
    \/ \E r \in Reqs : DeleteUserAddToken(r)
    \/ \E seconds \in TickSeconds : Tick(seconds)

\* the handlers over either kind of store, while time passes
SpecTimed == InitTimed /\ [][NextTimed]_vars

\* the 2FA handlers alone, started with more requests
Init2FA ==
    /\ users = InitUsers
    /\ codes = EmptyStore
    /\ banned = EmptyStore
    /\ sent = {}
    /\ now = 0
    /\ ticks = 0
    /\ backend = "memory"
    /\ nextId = 1
    /\ nreq = 0
    /\ limit = Max2FAReqs
    /\ reqs = [r \in Reqs |-> Idle]
    /\ hist = InitHist

\* the accounts that log in with a password and a code
TwoFactor == {e \in DOMAIN InitUsers : InitUsers[e].requires_2fa}

\* the requests of the callers that hold the credentials of such an account
\* and read its mail: any attempt id and any code sent so far
Next2FA ==
    \/ \E e \in TwoFactor : Login(e, InitUsers[e].password)
    \/ \E r \in Reqs : LoginAddCode(r)
    \/ \E r \in Reqs : LoginSendEmail(r)
    \/ \E s1, s2 \in hist.stored :
          s1.email = s2.email /\ Verify2FA(s1.email, s1.id, s2.code)
    \/ \E r \in Reqs : Verify2FARemoveCode(r)

Spec2FA == Init2FA /\ [][Next2FA]_vars

\* the requests of the callers that hold the credentials of e1 and e2 and
\* delete their accounts
NextLoginDelete ==
    \/ \E e \in DOMAIN InitUsers : Login(e, InitUsers[e].password)
    \/ \E r \in Reqs : LoginAddCode(r)
    \/ \E r \in Reqs : LoginSendEmail(r)
    \/ \E s \in hist.stored : Verify2FA(s.email, s.id, s.code)
    \/ \E r \in Reqs : Verify2FARemoveCode(r)
    \/ \E t \in IssuedTokens : DeleteUser({t})
    \/ \E r \in Reqs : DeleteUserDeleteUser(r)
    \/ \E r \in Reqs : DeleteUserAddToken(r)

SpecLoginDelete == Init2FA /\ [][NextLoginDelete]_vars

\* the 2FA logins of one account and its deletion, with more requests
InitDeletedAccount ==
    /\ users = InitUsers
    /\ codes = EmptyStore
    /\ banned = EmptyStore
    /\ sent = {}
    /\ now = 0
    /\ ticks = 0
    /\ backend = "memory"
    /\ nextId = 1
    /\ nreq = 0
    /\ limit = MaxDeleteReqs
    /\ reqs = [r \in Reqs |-> Idle]
    /\ hist = InitHist

NextDeletedAccount ==
    \/ \E e \in TwoFactor : Login(e, InitUsers[e].password)
    \/ \E r \in Reqs : LoginAddCode(r)
    \/ \E r \in Reqs : LoginSendEmail(r)
    \/ \E s \in hist.stored : Verify2FA(s.email, s.id, s.code)
    \/ \E r \in Reqs : Verify2FARemoveCode(r)
    \/ \E t \in IssuedTokens : DeleteUser({t})
    \/ \E r \in Reqs : DeleteUserDeleteUser(r)
    \/ \E r \in Reqs : DeleteUserAddToken(r)

SpecDeletedAccount == InitDeletedAccount /\ [][NextDeletedAccount]_vars

\* the session requests, with a banned token store that can fail
NextFaults ==
    \/ \E e \in PasswordOnly : Login(e, InitUsers[e].password)
    \/ \E t \in IssuedTokens : Logout({t})
    \/ \E r \in Reqs : LogoutAddToken(r)
    \/ \E t \in IssuedTokens : VerifyToken(t)
    \/ \E t \in IssuedTokens : VerifyTokenStoreError(t)
    \/ \E t \in IssuedTokens : LogoutStoreError({t})
    \/ \E seconds \in TickSeconds : Tick(seconds)

SpecFaults == InitTimed /\ [][NextFaults]_vars

\* the 2FA login and its redemption, over either kind of store, while time
\* passes
NextChallenge ==
    \/ \E e \in TwoFactor : Login(e, InitUsers[e].password)
    \/ \E r \in Reqs : LoginAddCode(r)
    \/ \E r \in Reqs : LoginSendEmail(r)
    \/ \E s \in hist.stored : Verify2FA(s.email, s.id, s.code)
    \/ \E r \in Reqs : Verify2FARemoveCode(r)
    \/ \E seconds \in TickSeconds : Tick(seconds)

SpecChallenge == InitTimed /\ [][NextChallenge]_vars

\* the 2FA login and its redemption with an email client that can fail
NextDelivery ==
    \/ \E e \in TwoFactor : Login(e, InitUsers[e].password)
    \/ \E r \in Reqs : LoginAddCode(r)
    \/ \E r \in Reqs : LoginSendEmail(r)
    \/ \E r \in Reqs : LoginSendEmailFails(r)
    \/ \E s \in hist.stored : Verify2FA(s.email, s.id, s.code)
    \/ \E r \in Reqs : Verify2FARemoveCode(r)

SpecDelivery == Init2FA /\ [][NextDelivery]_vars

\* the 2FA login and its redemption with a code store whose remove_code
\* can fail
NextRemoveFault ==
    \/ \E e \in TwoFactor : Login(e, InitUsers[e].password)
    \/ \E r \in Reqs : LoginAddCode(r)
    \/ \E r \in Reqs : LoginSendEmail(r)
    \/ \E s \in hist.stored : Verify2FA(s.email, s.id, s.code)
    \/ \E r \in Reqs : Verify2FARemoveCode(r)
    \/ \E r \in Reqs : Verify2FARemoveCodeFails(r)

SpecRemoveFault == InitTimed /\ [][NextRemoveFault]_vars

(* ------------------------------ the locks ------------------------------ *)

\* In the behaviours of the locks, a request is a handler (kind) at the
\* target-th lock operation of its program, running, or waiting in the queue
\* of a lock, and hist is the state of the locks: who holds which lock in
\* which mode, and the queue of each lock. tokio's RwLock is fair: waiters
\* are served first in, first out, so a reader waits behind a waiting writer.

\* AppState: the four store locks, and the lock of the Redis connection
\* that the Redis stores share
Locks ==
    {"user_store", "two_fa_code_store", "banned_token_store", "project_store",
     "conn"}

\* lock.read().await, lock.write().await
Acq(lock, mode) == [op |-> "acq", lock |-> lock, mode |-> mode]

\* the guard is dropped
Rel(lock) == [op |-> "rel", lock |-> lock, mode |-> "none"]

\* a Redis store method: self.conn.write().await for the one command
RedisCall ==
    IF backend = "redis" THEN <<Acq("conn", "write"), Rel("conn")>> ELSE << >>

\* state.store.read() or .write(), the store method, the guard dropped at
\* the end of the statement
Guarded(lock, mode, inner) == <<Acq(lock, mode)>> \o inner \o <<Rel(lock)>>

\* routes/auth/signup.rs: add_user under user_store.write()
signup_locks == Guarded("user_store", "write", << >>)

\* routes/auth/login.rs: the user store read guard is bound for the whole
\* handler; handle_2fa takes two_fa_code_store.write() for add_code and
\* sends the email while the read guard is still held
login_locks(requires_2fa) ==
    <<Acq("user_store", "read")>>
        \o (IF requires_2fa
            THEN Guarded("two_fa_code_store", "write", RedisCall)
            ELSE << >>)
        \o <<Rel("user_store")>>

\* routes/verify_2fa.rs: get_code under read(), remove_code under write()
verify_2fa_locks ==
    Guarded("two_fa_code_store", "read", RedisCall)
        \o Guarded("two_fa_code_store", "write", RedisCall)

\* utils::auth::validate_token: check_token under banned_token_store.read()
validate_token_locks == Guarded("banned_token_store", "read", RedisCall)

\* routes/logout.rs: validate_token, then add_token under write()
logout_locks ==
    validate_token_locks \o Guarded("banned_token_store", "write", RedisCall)

\* utils::auth::get_claims(jar, banned_token_store): validate_token
get_claims_locks == validate_token_locks

\* a delete_user that removes the account's challenge and holds the code
\* store write guard while it deletes the user
delete_user_locks_nested ==
    get_claims_locks
        \o <<Acq("two_fa_code_store", "write")>>
        \o Guarded("user_store", "write", << >>)
        \o <<Rel("two_fa_code_store")>>
        \o Guarded("banned_token_store", "write", RedisCall)

\* routes/auth/delete_user.rs: get_claims, then delete_projects,
\* get_project_list, the delete_members loop and delete_projects, each
\* under project_store.write(), delete_user under user_store.write() and
\* add_token under banned_token_store.write(), one guard at a time
delete_user_locks ==
    get_claims_locks
        \o Guarded("project_store", "write", << >>)
        \o Guarded("project_store", "write", << >>)
        \o Guarded("project_store", "write", << >>)
        \o Guarded("project_store", "write", << >>)
        \o Guarded("user_store", "write", << >>)
        \o Guarded("banned_token_store", "write", RedisCall)

\* the lock operations of a handler, in program order
LockProgram(req) ==
    CASE req.kind = "signup" -> signup_locks
      [] req.kind = "login" -> login_locks(req.requires_2fa)
      [] req.kind = "verify_2fa" -> verify_2fa_locks
      [] req.kind = "logout" -> logout_locks
      [] req.kind = "verify_token" -> validate_token_locks
      [] req.kind = "delete_user" -> delete_user_locks

LockHandlers ==
    {"signup", "login", "verify_2fa", "logout", "verify_token", "delete_user"}

\* the requests of a behaviour of the locks
LockReqs == 1..MaxLockReqs

InitLocks ==
    /\ users = InitUsers
    /\ codes = EmptyStore
    /\ banned = EmptyStore
    /\ sent = {}
    /\ now = 0
    /\ ticks = 0
    /\ backend \in {"memory", "redis"}
    /\ nextId = 1
    /\ nreq = 0
    /\ limit = MaxLockReqs
    /\ reqs = [r \in Reqs |-> Idle]
    /\ hist = [held |-> {}, queue |-> [l \in Locks |-> << >>]]

\* the lock operation request r is at
AtEnd(r) == reqs[r].target > Len(LockProgram(reqs[r]))

NextOp(r) == LockProgram(reqs[r])[reqs[r].target]

\* RwLock: any number of readers, or one writer
Compatible(lock, mode) ==
    \A h \in hist.held :
        h.lock = lock => mode = "read" /\ h.mode = "read"

\* a request arrives and its handler starts
StartHandler(kind, requires_2fa) ==
    /\ CanStart
    /\ reqs' = [reqs EXCEPT ![nreq + 1] =
                  [New(kind) EXCEPT !.pc = "run", !.target = 1,
                                    !.requires_2fa = requires_2fa]]
    /\ nreq' = nreq + 1
    /\ UNCHANGED <<users, codes, banned, sent, now, ticks, backend, limit, nextId, hist>>

\* read().await or write().await returns at once: nobody waits for the
\* lock and its holders allow the mode
LockAcquire(r) ==
    /\ reqs[r].pc = "run" /\ ~AtEnd(r) /\ NextOp(r).op = "acq"
    /\ hist.queue[NextOp(r).lock] = << >>
    /\ Compatible(NextOp(r).lock, NextOp(r).mode)
    /\ hist' = [hist EXCEPT !.held = @ \cup
                  {[lock |-> NextOp(r).lock, req |-> r, mode |-> NextOp(r).mode]}]
    /\ reqs' = [reqs EXCEPT ![r].target = @ + 1]
    /\ UNCHANGED <<users, codes, banned, sent, now, ticks, backend, limit, nextId, nreq>>

\* read().await or write().await suspends: the request joins the queue
LockWait(r) ==
    /\ reqs[r].pc = "run" /\ ~AtEnd(r) /\ NextOp(r).op = "acq"
    /\ \/ hist.queue[NextOp(r).lock] # << >>
       \/ ~Compatible(NextOp(r).lock, NextOp(r).mode)
    /\ hist' = [hist EXCEPT !.queue[NextOp(r).lock] = Append(@, r)]
    /\ reqs' = [reqs EXCEPT ![r].pc = "wait"]
    /\ UNCHANGED <<users, codes, banned, sent, now, ticks, backend, limit, nextId, nreq>>

\* the first waiter of a lock gets it when its holders allow the mode
LockGrant(r) ==
    /\ reqs[r].pc = "wait"
    /\ Head(hist.queue[NextOp(r).lock]) = r
    /\ Compatible(NextOp(r).lock, NextOp(r).mode)
    /\ hist' = [hist EXCEPT
                  !.queue[NextOp(r).lock] = Tail(@),
                  !.held = @ \cup
                  {[lock |-> NextOp(r).lock, req |-> r, mode |-> NextOp(r).mode]}]
    /\ reqs' = [reqs EXCEPT ![r].pc = "run", ![r].target = @ + 1]
    /\ UNCHANGED <<users, codes, banned, sent, now, ticks, backend, limit, nextId, nreq>>

\* the store operation has returned and the guard is dropped
LockRelease(r) ==
    /\ reqs[r].pc = "run" /\ ~AtEnd(r) /\ NextOp(r).op = "rel"
    /\ hist' = [hist EXCEPT !.held =
                  {h \in @ : ~(h.lock = NextOp(r).lock /\ h.req = r)}]
    /\ reqs' = [reqs EXCEPT ![r].target = @ + 1]
    /\ UNCHANGED <<users, codes, banned, sent, now, ticks, backend, limit, nextId, nreq>>

\* the handler returns its response
HandlerReturns(r) ==
    /\ reqs[r].pc = "run" /\ AtEnd(r)
    /\ reqs' = [reqs EXCEPT ![r].pc = "done"]
    /\ UNCHANGED <<users, codes, banned, sent, now, ticks, backend, limit, nextId, nreq, hist>>

\* the next step of the task of request r
LockStep(r) ==
    \/ LockAcquire(r)
    \/ LockWait(r)
    \/ LockGrant(r)
    \/ LockRelease(r)
    \/ HandlerReturns(r)

NextLocks ==
    \/ \E kind \in LockHandlers \ {"login"} : StartHandler(kind, FALSE)
    \/ \E requires_2fa \in BOOLEAN : StartHandler("login", requires_2fa)
    \/ \E r \in LockReqs : LockAcquire(r)
    \/ \E r \in LockReqs : LockWait(r)
    \/ \E r \in LockReqs : LockGrant(r)
    \/ \E r \in LockReqs : LockRelease(r)
    \/ \E r \in LockReqs : HandlerReturns(r)

\* a store operation and an email dispatch return, and the runtime runs a
\* task that is ready: while some task can make a step, one of them does
SpecLocks ==
    /\ InitLocks /\ [][NextLocks]_vars
    /\ WF_vars(\E r \in LockReqs : LockStep(r))

(* --------------------------- the stores alone -------------------------- *)

\* In the behaviours of a store alone, hist is the last call made on it:
\* its name, its argument, its result and the store before the call
StoreCall(call, arg, result, before) ==
    [call |-> call, arg |-> arg, result |-> result, before |-> before,
     at |-> now]

\* the attempt ids of the challenges a code store is started with
StoreIds == 1..2

\* the 2FA code stores over Emails: HashMap<Email, (LoginAttemptId, TwoFACode)>
CodeStores ==
    UNION {[D -> [id : StoreIds, code : Codes, at : {0}]] : D \in SUBSET Emails}

InitCodeStore ==
    /\ users = InitUsers
    /\ codes \in CodeStores
    /\ banned = EmptyStore
    /\ sent = {}
    /\ now = 0
    /\ ticks = 0
    /\ backend = "memory"
    /\ nextId = 1
    /\ nreq = 0
    /\ limit = MaxReqs
    /\ reqs = [r \in Reqs |-> Idle]
    /\ hist = StoreCall("none", "", "", codes)

\* two_fa_code_store.add_code(email, login_attempt_id, code)
CallAddCode(email, login_attempt_id, code) ==
    /\ codes' = add_code(email, login_attempt_id, code)
    /\ hist' = StoreCall("add_code", email, "Ok", codes)
    /\ UNCHANGED <<users, banned, sent, now, ticks, backend, nextId, nreq, limit, reqs>>

\* two_fa_code_store.remove_code(email)
CallRemoveCode(email) ==
    /\ codes' = remove_code(email)
    /\ hist' = StoreCall("remove_code", email, remove_code_result(email), codes)
    /\ UNCHANGED <<users, banned, sent, now, ticks, backend, nextId, nreq, limit, reqs>>

NextCodeStore ==
    \/ \E e \in Emails, i \in StoreIds, c \in Codes : CallAddCode(e, i, c)
    \/ \E e \in Emails : CallRemoveCode(e)

\* every sequence of calls on a 2FA code store
SpecCodeStore == InitCodeStore /\ [][NextCodeStore]_vars

\* the token strings a banned token store is given: two session tokens
\* and a string that is no token
StoreTokens ==
    {create_token([sub |-> "e2", exp |-> x]) : x \in {600, 630}} \cup {BadToken}

\* the banned token stores over StoreTokens, filled at instant 0
BannedStores == UNION {[D -> {0}] : D \in SUBSET StoreTokens}

InitBannedStore ==
    /\ users = InitUsers
    /\ codes = EmptyStore
    /\ banned \in BannedStores
    /\ sent = {}
    /\ now = 0
    /\ ticks = 0
    /\ backend \in {"memory", "redis"}
    /\ nextId = 1
    /\ nreq = 0
    /\ limit = MaxReqs
    /\ reqs = [r \in Reqs |-> Idle]
    /\ hist = StoreCall("none", "", "", banned)

\* banned_token_store.add_token(token)
CallAddToken(token) ==
    /\ banned' = add_token(token)
    /\ hist' = StoreCall("add_token", token, add_token_result(token), banned)
    /\ UNCHANGED <<users, codes, sent, now, ticks, backend, nextId, nreq, limit, reqs>>

NextBannedStore ==
    \/ \E t \in StoreTokens : CallAddToken(t)
    \/ \E seconds \in TickSeconds : Tick(seconds)

\* every sequence of add_token calls on a banned token store, while time
\* passes
SpecBannedStore == InitBannedStore /\ [][NextBannedStore]_vars

(* ------------------------ the two user stores -------------------------- *)

\* the salts SaltString::generate can draw, two of them
Salts == 1..2

\* compute_password_hash: the Argon2id hash of the password under the salt
compute_password_hash(password, salt) == [password |-> password, salt |-> salt]

\* verify_password_hash: does the candidate hash to the expected hash under
\* the salt the expected hash carries
verify_password_hash(expected_password_hash, password_candidate) ==
    compute_password_hash(password_candidate, expected_password_hash.salt)
        = expected_password_hash

\* the rows of table users WHERE email = $1
pg_rows(table, email) == {row \in table : row.email = email}

\* the unique index on users.email refuses a second row with the email
unique_violation(table, user) == pg_rows(table, user.email) # {}

\* PostgresUserStore::add_user: the INSERT
pg_add_user(table, user) ==
    IF unique_violation(table, user) THEN table ELSE table \cup {user}

\* PostgresUserStore::add_user: a unique violation is UserAlreadyExists
pg_add_user_result(table, user) ==
    IF unique_violation(table, user) THEN "UserAlreadyExists" ELSE "Ok"

\* PostgresUserStore::get_user: fetch_one, RowNotFound is UserNotFound
pg_get_user(table, email) ==
    IF pg_rows(table, email) = {} THEN "UserNotFound" ELSE "Ok"

\* PostgresUserStore::validate_user: get_user, then verify_password_hash
pg_validate_user(table, email, password) ==
    IF pg_get_user(table, email) # "Ok" THEN "UserNotFound"
    ELSE IF verify_password_hash(
                (CHOOSE row \in pg_rows(table, email) : TRUE).hash, password)
         THEN "Ok"
    ELSE "InvalidCredentials"

\* PostgresUserStore::delete_user: the table after the DELETE
pg_delete_user(table, email) == table \ pg_rows(table, email)

\* a delete_user that does not look at rows_affected
pg_delete_user_result_ok(table, email) == "Ok"

\* PostgresUserStore::delete_user: rows_affected of 0 is UserNotFound
pg_delete_user_result(table, email) ==
    IF Cardinality(pg_rows(table, email)) = 0 THEN "UserNotFound" ELSE "Ok"

\* In the behaviours of the two user stores, `users` is the HashmapUserStore
\* and hist holds the table of the PostgresUserStore next to the last call:
\* its name and email, what each store returned, both stores before it,
\* and the emails a delete_user has removed so far
UserStoreCall(call, arg, result, pgResult, table) ==
    [call |-> call, arg |-> arg, result |-> result, pgResult |-> pgResult,
     table |-> table, before |-> users, tableBefore |-> hist.table,
     deleted |-> IF call = "delete_user" /\ result = "Ok"
                 THEN hist.deleted \cup {arg} ELSE hist.deleted]

InitUserStore ==
    /\ users = EmptyStore
    /\ codes = EmptyStore
    /\ banned = EmptyStore
    /\ sent = {}
    /\ now = 0
    /\ ticks = 0
    /\ backend = "memory"
    /\ nextId = 1
    /\ nreq = 0
    /\ limit = MaxReqs
    /\ reqs = [r \in Reqs |-> Idle]
    /\ hist = [call |-> "none", arg |-> "", result |-> "", pgResult |-> "",
               table |-> {}, before |-> EmptyStore, tableBefore |-> {},
               deleted |-> {}]

\* add_user on both stores: the same email, password and flag, the hash
\* computed under a fresh salt
CallAddUser(email, password, requires_2fa, salt) ==
    LET user == User(email, password, requires_2fa)
        row == [email |-> email,
                hash |-> compute_password_hash(password, salt),
                requires_2fa |-> requires_2fa]
    IN  /\ users' = add_user(user)
        /\ hist' = UserStoreCall("add_user", email, add_user_result(user),
                                 pg_add_user_result(hist.table, row),
                                 pg_add_user(hist.table, row))
        /\ UNCHANGED <<codes, banned, sent, now, ticks, backend, nextId, nreq, limit, reqs>>

\* get_user on both stores
CallGetUser(email) ==
    /\ hist' = UserStoreCall("get_user", email, get_user(email),
                             pg_get_user(hist.table, email), hist.table)
    /\ UNCHANGED <<users, codes, banned, sent, now, ticks, backend, nextId, nreq, limit, reqs>>

\* validate_user on both stores
CallValidateUser(email, password) ==
    /\ hist' = UserStoreCall("validate_user", email,
                             validate_user(email, password),
                             pg_validate_user(hist.table, email, password),
                             hist.table)
    /\ UNCHANGED <<users, codes, banned, sent, now, ticks, backend, nextId, nreq, limit, reqs>>

\* delete_user on both stores
CallDeleteUser(email) ==
    /\ users' = delete_user(email)
    /\ hist' = UserStoreCall("delete_user", email, delete_user_result(email),
                             pg_delete_user_result(hist.table, email),
                             pg_delete_user(hist.table, email))
    /\ UNCHANGED <<codes, banned, sent, now, ticks, backend, nextId, nreq, limit, reqs>>

NextUserStore ==
    \/ \E e \in Emails, p \in Passwords, f \in BOOLEAN, salt \in Salts :
          CallAddUser(e, p, f, salt)
    \/ \E e \in Emails : CallGetUser(e)
    \/ \E e \in Emails, p \in Passwords : CallValidateUser(e, p)
    \/ \E e \in Emails : CallDeleteUser(e)

\* every sequence of calls, made on a HashmapUserStore and on a
\* PostgresUserStore alike
SpecUserStore == InitUserStore /\ [][NextUserStore]_vars

(* --------------------------- Password::parse --------------------------- *)

\* a raw password, by its number of one-byte characters (ASCII) and its
\* number of four-byte characters (emoji)
RawPasswords == [ascii : 0..MaxPasswordChars, wide : 0..MaxPasswordChars]

\* String::len: the number of bytes of the UTF-8 encoding
bytes_len(raw) == raw.ascii + 4 * raw.wide

\* a count of bytes where the characters are to be counted
chars_count_bytes(raw) == bytes_len(raw)

\* str::chars().count(): the number of Unicode scalar values
chars_count(raw) == raw.ascii + raw.wide

\* the message of validate_password: which bound, and the two bounds
PasswordMessage(which) == <<which, min_characters, max_characters>>

\* Password::parse / validate_password: <<"Ok">>, or the message of the
\* ValidationError "Invalid password"
validate_password(raw) ==
    IF chars_count(raw) < min_characters THEN PasswordMessage("Too short")
    ELSE IF chars_count(raw) > max_characters THEN PasswordMessage("Too long")
    ELSE <<"Ok">>

\* In the behaviours of Password::parse, hist is the raw password and what
\* parse returned for it
InitPassword ==
    /\ users = InitUsers
    /\ codes = EmptyStore
    /\ banned = EmptyStore
    /\ sent = {}
    /\ now = 0
    /\ ticks = 0
    /\ backend = "memory"
    /\ nextId = 1
    /\ nreq = 0
    /\ limit = MaxReqs
    /\ reqs = [r \in Reqs |-> Idle]
    /\ \E raw \in RawPasswords : hist = [raw |-> raw, result |-> <<"none">>]

\* Password::parse(raw)
CallPasswordParse ==
    /\ hist.result = <<"none">>
    /\ hist' = [hist EXCEPT !.result = validate_password(hist.raw)]
    /\ UNCHANGED <<users, codes, banned, sent, now, ticks, backend, nextId, nreq, limit, reqs>>

SpecPassword == InitPassword /\ [][CallPasswordParse]_vars

(* --------------------------- the project store ------------------------- *)

\* In the behaviours of the project endpoints hist holds, next to its other
\* fields, the tables of the PostgresProjectStore (projects_list, members,
\* shifts) and the next fresh UUID of ProjectId, MemberId and ShiftId, and
\* for the properties every project and member there has been. A user's id
\* is written as the user's email.

\* get_project_list: the ids of SELECT ... FROM projects_list WHERE user_id
get_project_list(user_id) ==
    {row.project_id : row \in {x \in hist.projects_list : x.user_id = user_id}}

\* delete_projects: DELETE FROM projects_list WHERE user_id
delete_projects(user_id) ==
    {row \in hist.projects_list : row.user_id # user_id}

\* delete_members: the members table after the call; nothing is deleted
\* when the project is not in the user's list (ProjectIDNotFound)
delete_members(user_id, project_id) ==
    IF project_id \notin get_project_list(user_id) THEN hist.members
    ELSE {row \in hist.members : row.project_id # project_id}

\* a get_member that does not join the owner's projects
get_member_any(user_id, member_id) ==
    {m \in hist.members : m.member_id = member_id}

\* get_member: members INNER JOIN projects_list WHERE member_id AND user_id
get_member(user_id, member_id) ==
    {m \in hist.members :
        /\ m.member_id = member_id
        /\ \E pr \in hist.projects_list :
              pr.project_id = m.project_id /\ pr.user_id = user_id}

\* add_member: ProjectIDNotFound unless the project is in the user's list
add_member_result(user_id, member) ==
    IF member.project_id \notin get_project_list(user_id)
    THEN "ProjectIDNotFound" ELSE "Ok"

\* add_member: the members table after the call
add_member(user_id, member) ==
    IF add_member_result(user_id, member) # "Ok" THEN hist.members
    ELSE hist.members \cup {member}

\* update_member: ProjectIDNotFound unless the project is in the user's list
update_member_result(user_id, member) ==
    IF member.project_id \notin get_project_list(user_id)
    THEN "ProjectIDNotFound" ELSE "Ok"

\* update_member: UPDATE members SET member_name WHERE member_id
update_member(user_id, member) ==
    IF update_member_result(user_id, member) # "Ok" THEN hist.members
    ELSE {IF row.member_id = member.member_id
          THEN [row EXCEPT !.member_name = member.member_name] ELSE row :
          row \in hist.members}

\* add_shift: get_member first, MemberIDNotFound when it finds no row
add_shift_result(user_id, shift) ==
    IF get_member(user_id, shift.member_id) = {}
    THEN "MemberIDNotFound" ELSE "Ok"

\* add_shift: the shifts table after the call
add_shift(user_id, shift) ==
    IF add_shift_result(user_id, shift) # "Ok" THEN hist.shifts
    ELSE hist.shifts \cup {shift}

\* the session token a user holds
SessionOf(email) == {create_token([sub |-> email, exp |-> TOKEN_TTL_SECONDS])}

\* e1 owns project 1 with member 3, who has shift 5; e2 owns project 2 with
\* member 4
InitProjectsHist ==
    [stored |-> {}, lastPut |-> EmptyStore, claimed |-> {}, redeemed |-> {},
     loggedOut |-> {}, revoked |-> {}, signedUp |-> DOMAIN InitUsers,
     projects_list |-> {[user_id |-> "e1", project_id |-> 1],
                        [user_id |-> "e2", project_id |-> 2]},
     members |-> {[member_id |-> 3, project_id |-> 1, member_name |-> "n1"],
                  [member_id |-> 4, project_id |-> 2, member_name |-> "n1"]},
     shifts |-> {[id |-> 5, member_id |-> 3]},
     nextUuid |-> 6,
     everProjects |-> {[user_id |-> "e1", project_id |-> 1],
                       [user_id |-> "e2", project_id |-> 2]},
     everMembers |-> {[member_id |-> 3, project_id |-> 1],
                      [member_id |-> 4, project_id |-> 2]}]

InitProjects ==
    /\ users = InitUsers
    /\ codes = EmptyStore
    /\ banned = EmptyStore
    /\ sent = {}
    /\ now = 0
    /\ ticks = 0
    /\ backend = "memory"
    /\ nextId = 1
    /\ nreq = 0
    /\ limit = MaxReqs
    /\ reqs = [r \in Reqs |-> Idle]
    /\ hist = InitProjectsHist

\* ProjectAPIError::into_response: the handler returns the error
ProjectFail(req, status, error) ==
    [req EXCEPT !.pc = "done", !.status = status, !.error = error,
                !.outJar = req.jar]

\* the request of the given kind that starts now with the jar, by the user
\* whose token the jar holds; get_claims has been called
ProjectReq(kind, jar) ==
    [New(kind) EXCEPT !.jar = jar, !.cookie = jar,
                      !.email = (CHOOSE t \in jar : TRUE).sub]

\* what is left untouched by the project endpoints
ProjectFrame ==
    UNCHANGED <<users, codes, banned, sent, now, ticks, backend, limit, nextId>>

\* routes/projects/new_project.rs: add_project with a fresh ProjectId
NewProject(jar) ==
    /\ CanStart
    /\ LET r == nreq + 1
           req == ProjectReq("new_project", jar)
       IN  IF get_claims(jar) # "Ok"
           THEN /\ reqs' = [reqs EXCEPT ![r] = ProjectFail(req, 500, "UnexpectedError")]
                /\ UNCHANGED hist
           ELSE /\ hist' = [hist EXCEPT
                               !.projects_list = @ \cup
                                  {[user_id |-> req.email, project_id |-> hist.nextUuid]},
                               !.everProjects = @ \cup
                                  {[user_id |-> req.email, project_id |-> hist.nextUuid]},
                               !.nextUuid = @ + 1]
                /\ reqs' = [reqs EXCEPT ![r] =
                      [req EXCEPT !.pc = "done", !.status = 201,
                                  !.outJar = jar, !.target = hist.nextUuid]]
    /\ nreq' = nreq + 1
    /\ ProjectFrame

\* routes/projects/add_member.rs: Member::new with a fresh MemberId, then
\* add_member under the write lock
AddMember(jar, project_id, member_name) ==
    /\ CanStart
    /\ LET r == nreq + 1
           req == [ProjectReq("add_member", jar) EXCEPT
                       !.target = project_id, !.name = member_name]
           member == [member_id |-> hist.nextUuid, project_id |-> project_id,
                      member_name |-> member_name]
       IN  IF get_claims(jar) # "Ok"
           THEN /\ reqs' = [reqs EXCEPT ![r] = ProjectFail(req, 401, "AuthenticationError")]
                /\ UNCHANGED hist
           ELSE IF add_member_result(req.email, member) # "Ok"
           THEN /\ reqs' = [reqs EXCEPT ![r] = ProjectFail(req, 404, "IDNotFoundError")]
                /\ hist' = [hist EXCEPT !.nextUuid = @ + 1]
           ELSE /\ hist' = [hist EXCEPT !.members = add_member(req.email, member),
                                        !.everMembers = @ \cup
                                           {[member_id |-> member.member_id,
                                             project_id |-> project_id]},
                                        !.nextUuid = @ + 1]
                /\ reqs' = [reqs EXCEPT ![r] =
                      [req EXCEPT !.pc = "done", !.status = 201, !.outJar = jar,
                                  !.body = member]]
    /\ nreq' = nreq + 1
    /\ ProjectFrame

\* routes/projects/get_member.rs: get_member under the write lock
GetMemberById(jar, member_id) ==
    /\ CanStart
    /\ LET r == nreq + 1
           req == [ProjectReq("get_member", jar) EXCEPT !.target = member_id]
           found == get_member(req.email, member_id)
       IN  reqs' = [reqs EXCEPT ![r] =
                IF get_claims(jar) # "Ok"
                THEN ProjectFail(req, 401, "AuthenticationError")
                ELSE IF found = {}
                THEN ProjectFail(req, 404, "IDNotFoundError")
                ELSE [req EXCEPT !.pc = "done", !.status = 200, !.outJar = jar,
                                 !.body = CHOOSE m \in found : TRUE]]
    /\ nreq' = nreq + 1
    /\ UNCHANGED hist
    /\ ProjectFrame

\* routes/projects/update_member.rs, first half: get_member under the
\* write lock, then the new name is put in the member
UpdateMember(jar, member_id, member_name) ==
    /\ CanStart
    /\ LET r == nreq + 1
           req == [ProjectReq("update_member", jar) EXCEPT
                       !.target = member_id, !.name = member_name]
           found == get_member(req.email, member_id)
       IN  reqs' = [reqs EXCEPT ![r] =
                IF get_claims(jar) # "Ok"
                THEN ProjectFail(req, 401, "AuthenticationError")
                ELSE IF found = {}
                THEN ProjectFail(req, 404, "IDNotFoundError")
                ELSE [req EXCEPT !.pc = "update_member",
                          !.body = [(CHOOSE m \in found : TRUE) EXCEPT
                                        !.member_name = member_name]]]
    /\ nreq' = nreq + 1
    /\ UNCHANGED hist
    /\ ProjectFrame

\* routes/projects/update_member.rs, second half: update_member under the
\* write lock
UpdateMemberUpdate(r) ==
    /\ reqs[r].kind = "update_member" /\ reqs[r].pc = "update_member"
    /\ IF update_member_result(reqs[r].email, reqs[r].body) # "Ok"
       THEN /\ reqs' = [reqs EXCEPT ![r] =
                   [ProjectFail(reqs[r], 404, "IDNotFoundError") EXCEPT !.body = NoBody]]
            /\ UNCHANGED hist
       ELSE /\ hist' = [hist EXCEPT !.members = update_member(reqs[r].email, reqs[r].body)]
            /\ reqs' = [reqs EXCEPT ![r] =
                   [reqs[r] EXCEPT !.pc = "done", !.status = 200,
                                   !.outJar = reqs[r].jar]]
    /\ UNCHANGED nreq
    /\ ProjectFrame

\* routes/projects/add_shift.rs: Shift::new with a fresh ShiftId, then
\* add_shift under the write lock
AddShift(jar, member_id) ==
    /\ CanStart
    /\ LET r == nreq + 1
           req == [ProjectReq("add_shift", jar) EXCEPT !.target = member_id]
           shift == [id |-> hist.nextUuid, member_id |-> member_id]
       IN  IF get_claims(jar) # "Ok"
           THEN /\ reqs' = [reqs EXCEPT ![r] = ProjectFail(req, 401, "AuthenticationError")]
                /\ UNCHANGED hist
           ELSE IF add_shift_result(req.email, shift) # "Ok"
           THEN /\ reqs' = [reqs EXCEPT ![r] = ProjectFail(req, 404, "IDNotFoundError")]
                /\ hist' = [hist EXCEPT !.nextUuid = @ + 1]
           ELSE /\ hist' = [hist EXCEPT !.shifts = add_shift(req.email, shift),
                                        !.nextUuid = @ + 1]
                /\ reqs' = [reqs EXCEPT ![r] =
                      [req EXCEPT !.pc = "done", !.status = 201, !.outJar = jar,
                                  !.body = shift]]
    /\ nreq' = nreq + 1
    /\ ProjectFrame

\* routes/auth/delete_user.rs: get_claims, then the first delete_projects
DeleteUserDeleteProjects(jar) ==
    /\ CanStart
    /\ LET r == nreq + 1
           req == [New("delete_user") EXCEPT !.jar = jar]
       IN  IF get_claims(jar) # "Ok"
           THEN /\ reqs' = [reqs EXCEPT ![r] =
                       Fail(req, "UnexpectedError", get_claims(jar))]
                /\ UNCHANGED hist
           ELSE /\ reqs' = [reqs EXCEPT ![r] =
                       [req EXCEPT !.pc = "get_project_list", !.cookie = jar,
                                   !.email = (CHOOSE t \in jar : TRUE).sub]]
                /\ hist' = [hist EXCEPT !.projects_list =
                               delete_projects((CHOOSE t \in jar : TRUE).sub)]
    /\ nreq' = nreq + 1
    /\ ProjectFrame

\* routes/auth/delete_user.rs: user_projects = get_project_list(user_id)
DeleteUserGetProjectList(r) ==
    /\ reqs[r].kind = "delete_user" /\ reqs[r].pc = "get_project_list"
    /\ reqs' = [reqs EXCEPT ![r] =
                  [reqs[r] EXCEPT !.pc = "delete_members",
                                  !.list = get_project_list(reqs[r].email)]]
    /\ UNCHANGED <<hist, nreq>>
    /\ ProjectFrame

\* delete_members for every project of the list, one after the other under
\* one write lock
delete_members_of(user_id, list, members) ==
    {row \in members :
        row.project_id \notin list \cap get_project_list(user_id)}

\* routes/auth/delete_user.rs: the loop over user_projects; a project that
\* is no longer in the user's list makes delete_members fail, and the
\* handler return UnexpectedError after the projects before it in the list
\* (the list has no order we know) have lost their members
DeleteUserDeleteMembers(r) ==
    /\ reqs[r].kind = "delete_user" /\ reqs[r].pc = "delete_members"
    /\ IF reqs[r].list \subseteq get_project_list(reqs[r].email)
       THEN /\ hist' = [hist EXCEPT !.members =
                          delete_members_of(reqs[r].email, reqs[r].list, @)]
            /\ reqs' = [reqs EXCEPT ![r].pc = "delete_projects"]
       ELSE /\ \E before \in SUBSET (reqs[r].list \cap get_project_list(reqs[r].email)) :
                  hist' = [hist EXCEPT !.members =
                             delete_members_of(reqs[r].email, before, @)]
            /\ reqs' = [reqs EXCEPT ![r] =
                   Fail(reqs[r], "UnexpectedError", "ProjectIDNotFound")]
    /\ UNCHANGED nreq
    /\ ProjectFrame

\* routes/auth/delete_user.rs: the second delete_projects; delete_user and
\* add_token follow
DeleteUserDeleteProjectsAgain(r) ==
    /\ reqs[r].kind = "delete_user" /\ reqs[r].pc = "delete_projects"
    /\ hist' = [hist EXCEPT !.projects_list = delete_projects(reqs[r].email)]
    /\ reqs' = [reqs EXCEPT ![r].pc = "delete_user"]
    /\ UNCHANGED nreq
    /\ ProjectFrame

\* the ids a caller can name: those in the tables
MemberIds == {m.member_id : m \in hist.members}

ProjectIds == {pr.project_id : pr \in hist.projects_list}

\* the name a member is given or renamed to
NewNames == {"n2"}

\* the requests of the two users on the project endpoints and on delete-user
NextProjects ==
    \/ \E e \in DOMAIN InitUsers : NewProject(SessionOf(e))
    \/ \E e \in DOMAIN InitUsers, id \in ProjectIds, n \in NewNames :
          AddMember(SessionOf(e), id, n)
    \/ \E e \in DOMAIN InitUsers, id \in MemberIds : GetMemberById(SessionOf(e), id)
    \/ \E e \in DOMAIN InitUsers, id \in MemberIds, n \in NewNames :
          UpdateMember(SessionOf(e), id, n)
    \/ \E r \in Reqs : UpdateMemberUpdate(r)
    \/ \E e \in DOMAIN InitUsers, id \in MemberIds : AddShift(SessionOf(e), id)
    \/ \E e \in DOMAIN InitUsers : DeleteUserDeleteProjects(SessionOf(e))
    \/ \E r \in Reqs : DeleteUserGetProjectList(r)
    \/ \E r \in Reqs : DeleteUserDeleteMembers(r)
    \/ \E r \in Reqs : DeleteUserDeleteProjectsAgain(r)
    \/ \E r \in Reqs : DeleteUserDeleteUser(r)
    \/ \E r \in Reqs : DeleteUserAddToken(r)

SpecProjects == InitProjects /\ [][NextProjects]_vars

(* ============================ properties =============================== *)

IsDone(r, kind) == reqs[r].kind = kind /\ reqs[r].pc = "done"

\* the response carries a session token for email
HasSession(r, email) ==
    /\ reqs[r].status = 200
    /\ \E t \in reqs[r].outJar : t.sub = email /\ t.sig

\* the 401 "Incorrect credentials" response: no cookie, no body
IsIncorrectCredentials(r) ==
    /\ reqs[r].status = 401
    /\ reqs[r].error = "IncorrectCredentials"
    /\ reqs[r].outJar = {}
    /\ reqs[r].body = NoBody

\* C1: a Verify2FA presenting the challenge a Login stored last for its
\* email, which no Verify2FA has matched before, succeeds with a session
\* token; a Verify2FA that starts after a Verify2FA of the same (email,
\* attempt id, code) has returned success fails with IncorrectCredentials.
C1_RedeemedOnce ==
    \A r \in Reqs :
        IsDone(r, "verify_2fa") =>
            /\ reqs[r].first => HasSession(r, reqs[r].email)
            /\ reqs[r].after => IsIncorrectCredentials(r)

\* C2: of the Verify2FA requests that present the same (email, attempt id,
\* code), concurrent or not, at most one returns success.
C2_AtMostOneSuccess ==
    \A r1, r2 \in Reqs :
        /\ IsDone(r1, "verify_2fa") /\ reqs[r1].status = 200
        /\ IsDone(r2, "verify_2fa") /\ reqs[r2].status = 200
        /\ reqs[r1].email = reqs[r2].email
        /\ reqs[r1].id = reqs[r2].id /\ reqs[r1].code = reqs[r2].code
        => r1 = r2

\* C3: once a later Login has stored its challenge for an email, a
\* Verify2FA presenting any other (attempt id, code) pair for that email -
\* the pair of an earlier Login, or the new attempt id with an old code -
\* fails with IncorrectCredentials.
C3_Supersession ==
    \A r \in Reqs :
        IsDone(r, "verify_2fa") /\ reqs[r].stale /\ reqs[r].error # "ValidationError"
            => IsIncorrectCredentials(r)

\* the challenges Logins have stored for email
StoredFor(email) == {s \in hist.stored : s.email = email}

\* C3 witness: two Logins have stored challenges with different codes for
\* one email, and a Verify2FA presenting the later attempt id with the
\* earlier code has been refused
C3_Witness ==
    \E r \in Reqs : \E l1, l2 \in StoredFor(reqs[r].email) :
        /\ IsDone(r, "verify_2fa") /\ reqs[r].stale /\ reqs[r].status = 401
        /\ l1.id < l2.id /\ l1.code # l2.code
        /\ hist.lastPut[reqs[r].email].id = l2.id
        /\ reqs[r].id = l2.id /\ reqs[r].code = l1.code

C5_RevokedNeverAccepted ==
    \A r \in Reqs :
        IsDone(r, "verify_token") /\ reqs[r].revoked => reqs[r].status # 200

C7_SessionIssued ==
    \A r \in Reqs :
        IsDone(r, "login") /\ reqs[r].status = 200 =>
            /\ reqs[r].valid
            /\ \E t \in reqs[r].outJar :
                    /\ t.sub = reqs[r].email
                    /\ t.exp = reqs[r].at + 600

\* C8: a Login for an unknown email and a Login with a wrong password get
\* the same answer (401, Incorrect credentials, no cookie, no body), and
\* neither changes a store or sends a message.
C8_LoginNoEnumeration ==
    [][\A r \in Reqs :
          /\ reqs[r].pc = "idle" /\ reqs'[r].kind = "login"
          /\ reqs'[r].cause \in {"UserNotFound", "InvalidCredentials"}
          => /\ IsIncorrectCredentials(r)'
             /\ UNCHANGED <<users, codes, banned, sent>>]_vars

\* C8 witness: a Login for an unknown email and one with a wrong password
\* have both been answered
C8_Witness ==
    \E r1, r2 \in Reqs :
        /\ IsDone(r1, "login") /\ reqs[r1].cause = "UserNotFound"
        /\ IsDone(r2, "login") /\ reqs[r2].cause = "InvalidCredentials"
        /\ reqs[r1].status = 401 /\ reqs[r2].status = 401

Verify2FACauses ==
    {"LoginAttemptIdNotFound", "WrongLoginAttemptId", "WrongTwoFACode"}

\* C9: a Verify2FA with no pending challenge, with a wrong attempt id or
\* with a wrong code gets the same answer (401, Incorrect credentials, no
\* cookie), and leaves the 2FA code store as it was.
C9_Verify2FANoEnumeration ==
    [][\A r \in Reqs :
          /\ reqs[r].pc = "idle" /\ reqs'[r].kind = "verify_2fa"
          /\ reqs'[r].cause \in Verify2FACauses
          => /\ IsIncorrectCredentials(r)'
             /\ UNCHANGED codes]_vars

\* C9 witness: a Verify2FA without a pending challenge and one with a wrong
\* attempt id or code have both been answered
C9_Witness ==
    \E r1, r2 \in Reqs :
        /\ IsDone(r1, "verify_2fa") /\ reqs[r1].cause = "LoginAttemptIdNotFound"
        /\ IsDone(r2, "verify_2fa")
        /\ reqs[r2].cause \in {"WrongLoginAttemptId", "WrongTwoFACode"}
        /\ reqs[r1].status = 401 /\ reqs[r2].status = 401

\* C10: a Signup for an email that is signed up (and not deleted since)
\* fails with 409 User already exists, whatever password and requires2FA
\* it carries, and leaves the user store as it was.
C10_SignupRejectsDuplicate ==
    [][\A r \in Reqs :
          /\ reqs[r].pc = "idle" /\ reqs'[r].kind = "signup"
          /\ reqs'[r].after /\ reqs'[r].error # "ValidationError"
          => /\ reqs'[r].status = 409
             /\ reqs'[r].error = "UserAlreadyExists"
             /\ UNCHANGED users]_vars

\* C10 witness: a Signup has succeeded and a later one for the same email,
\* with another password, has been refused
C10_Witness ==
    \E r1, r2 \in Reqs :
        /\ r1 < r2
        /\ IsDone(r1, "signup") /\ reqs[r1].status = 201
        /\ IsDone(r2, "signup") /\ reqs[r2].status = 409
        /\ reqs[r1].email = reqs[r2].email
        /\ reqs[r1].password # reqs[r2].password
        /\ users[reqs[r1].email].password = reqs[r1].password

\* the delete-user requests that have deleted the account of email
Deleted(email) ==
    {r \in Reqs : /\ reqs[r].kind = "delete_user" /\ reqs[r].email = email
                  /\ \/ reqs[r].pc = "add_token"
                     \/ reqs[r].pc = "done" /\ reqs[r].status = 200}

\* the Signups for email that have returned 201
Created(email) ==
    {r \in Reqs : IsDone(r, "signup") /\ reqs[r].email = email
                  /\ reqs[r].status = 201}

\* C11: of the Signups for one email, in whatever order they reach the user
\* store, one succeeds and the others fail with 409 User already exists:
\* the email is created at most once more than it is deleted (and not at
\* all, before a deletion, when it was signed up from the start), and a
\* Signup that passes validation and does not create the account fails
\* with UserAlreadyExists while the account exists through another.
C11_OneSignupWins ==
    \A e \in Emails :
        /\ Cardinality(Created(e)) + (IF e \in DOMAIN InitUsers THEN 1 ELSE 0)
              <= 1 + Cardinality(Deleted(e))
        /\ \A r \in Reqs :
              /\ IsDone(r, "signup") /\ reqs[r].email = e
              /\ reqs[r].error # "ValidationError" /\ reqs[r].status # 201
              => /\ reqs[r].status = 409
                 /\ reqs[r].error = "UserAlreadyExists"
                 /\ e \in DOMAIN InitUsers \/ Created(e) # {}

\* C11 witness: two Signups for an email without an account, with
\* different passwords; one has created it, the other got 409, and the
\* record is the one of the Signup that succeeded
C11_Witness ==
    \E r1, r2 \in Reqs :
        /\ IsDone(r1, "signup") /\ IsDone(r2, "signup")
        /\ reqs[r1].email = reqs[r2].email
        /\ reqs[r1].email \notin DOMAIN InitUsers
        /\ reqs[r1].status = 201 /\ reqs[r2].status = 409
        /\ reqs[r1].password # reqs[r2].password
        /\ users[reqs[r1].email] =
              User(reqs[r1].email, reqs[r1].password, reqs[r1].requires_2fa)

\* the delete-user request r returns 200 in this step
DeleteReturns(r) ==
    /\ reqs[r].kind = "delete_user" /\ reqs[r].pc = "add_token"
    /\ reqs'[r].pc = "done" /\ reqs'[r].status = 200

\* a Signup that started after request r has created the account of email
SignedUpSince(r, email) ==
    \E s \in Created(email) : s > r

\* no Login for email, whatever the password, gets past validate_user
LoginRefused(email) ==
    \A p \in Passwords :
        /\ validate_user(email, p) # "Ok"
        /\ LoginError(validate_user(email, p)) = "IncorrectCredentials"

\* C12 as stated: when a delete-user presenting token t of email e returns
\* 200, e has no record in the user store, a Login for e fails with
\* IncorrectCredentials, and validate_token(t) fails.
C12_DeleteEffectsAtReturn ==
    [][\A r \in Reqs : DeleteReturns(r) =>
          /\ reqs[r].email \notin DOMAIN users'
          /\ LoginRefused(reqs[r].email)'
          /\ \A t \in reqs[r].cookie : (validate_token(t) # "Ok")']_vars

\* C12, amended: when a delete-user presenting token t of email e returns
\* 200, validate_token(t) fails, and, unless a Signup that started after
\* the delete-user has created e again, e has no record in the user store
\* and a Login for e fails with IncorrectCredentials.
C12_DeleteEffects ==
    [][\A r \in Reqs : DeleteReturns(r) =>
          /\ \A t \in reqs[r].cookie : (validate_token(t) # "Ok")'
          /\ \/ SignedUpSince(r, reqs[r].email)'
             \/ /\ reqs[r].email \notin DOMAIN users'
                /\ LoginRefused(reqs[r].email)']_vars

\* C12 witness: a delete-user has returned 200, the account is gone, and a
\* Login for it with the password it had has been refused since
C12_Witness ==
    \E r, l \in Reqs :
        /\ IsDone(r, "delete_user") /\ reqs[r].status = 200
        /\ reqs[r].email \notin DOMAIN users
        /\ \A t \in reqs[r].cookie : validate_token(t) # "Ok"
        /\ l > r /\ IsDone(l, "login") /\ reqs[l].email = reqs[r].email
        /\ reqs[l].password = InitUsers[reqs[r].email].password
        /\ IsIncorrectCredentials(l)

\* C13: a delete-user without a session token fails with MissingToken
\* (400), one with an invalid or revoked token with InvalidToken (401),
\* and neither touches the user store or the banned token store.
C13_DeleteRequiresSession ==
    \A r \in Reqs :
        IsDone(r, "delete_user") =>
            /\ reqs[r].cause = "MissingToken" =>
                  reqs[r].status = 400 /\ reqs[r].error = "MissingToken"
            /\ reqs[r].cause = "InvalidToken" =>
                  reqs[r].status = 401 /\ reqs[r].error = "InvalidToken"

\* C14: of two delete-user requests presenting the same token, one returns
\* 200, and the one that finds the record already deleted fails with 404
\* User not found.
C14_DeleteRaceNotFound ==
    \A r1, r2 \in Reqs :
        /\ IsDone(r1, "delete_user") /\ IsDone(r2, "delete_user")
        /\ r1 # r2 /\ reqs[r1].cookie = reqs[r2].cookie
        /\ reqs[r1].status = 200
        /\ reqs[r2].cause = "UserNotFound"
        => reqs[r2].status = 404 /\ reqs[r2].error = "UserNotFound"

\* the Login request r takes a step
LoginSteps(r) == reqs'[r].kind = "login" /\ reqs'[r] # reqs[r]

\* C15: a Login racing a delete-user for its email either finds no account
\* and fails with IncorrectCredentials, storing no challenge and issuing no
\* token, or it stores its challenge and returns its token or its attempt
\* id while the account it has checked is still there.
C15_LoginDeleteRace ==
    [][\A r \in Reqs : LoginSteps(r) =>
          IF reqs'[r].cause = "UserNotFound"
          THEN /\ IsIncorrectCredentials(r)'
               /\ UNCHANGED <<codes, sent>>
               /\ \A s \in hist'.stored : s.req # r
          ELSE \/ reqs'[r].pc \in {"add_code", "send_email"}
               \/ reqs'[r].status \in {200, 206}
               => /\ reqs'[r].email \in DOMAIN users
                  /\ reqs'[r].email \in DOMAIN users']_vars

\* C15 witness: a delete-user has deleted the account and has not
\* returned yet; a Login for the account that started after the delete-user
\* has been refused
C15_Witness ==
    \E d, l \in Reqs :
        /\ d < l /\ IsDone(l, "login")
        /\ reqs[d].kind = "delete_user" /\ reqs[d].pc = "add_token"
        /\ reqs[d].email = reqs[l].email
        /\ reqs[l].cause = "UserNotFound" /\ IsIncorrectCredentials(l)

\* C16: a Logout presenting a token that an earlier Logout has revoked
\* fails with InvalidToken (401).
C16_SecondLogoutFails ==
    \A r \in Reqs :
        IsDone(r, "logout") /\ reqs[r].after =>
            reqs[r].status = 401 /\ reqs[r].error = "InvalidToken"

\* the Logout request r starts in this step
LogoutStarts(r) == reqs[r].pc = "idle" /\ reqs'[r].kind = "logout"

\* the Logout request r returns 200 in this step
LogoutReturns(r) ==
    /\ reqs[r].kind = "logout" /\ reqs[r].pc = "add_token"
    /\ reqs'[r].pc = "done"

\* C17: a Logout without a session token fails with MissingToken (400), a
\* Logout with a token that is no signed token or that is in the banned
\* token store fails with InvalidToken (401); both leave the banned token
\* store as it was and return the jar they were given. A Logout goes on to
\* add_token only with a token that validates; it then returns 200 with the
\* token in the store and the cookie gone from the jar. No other step of a
\* Logout changes the store.
C17_LogoutRequiresValidToken ==
    [][\A r \in Reqs :
          /\ LogoutStarts(r) =>
                /\ UNCHANGED banned
                /\ reqs'[r].jar = {} =>
                      /\ reqs'[r].status = 400
                      /\ reqs'[r].error = "MissingToken"
                      /\ reqs'[r].outJar = reqs'[r].jar
                /\ \A t \in reqs'[r].jar : ~t.sig \/ t \in DOMAIN banned =>
                      /\ reqs'[r].status = 401
                      /\ reqs'[r].error = "InvalidToken"
                      /\ reqs'[r].outJar = reqs'[r].jar
                /\ reqs'[r].pc = "add_token" =>
                      \A t \in reqs'[r].cookie :
                          /\ reqs'[r].jar = {t}
                          /\ t.sig /\ t \notin DOMAIN banned
                          /\ validate_token(t) = "Ok"
          /\ LogoutReturns(r) =>
                /\ reqs'[r].status = 200 /\ reqs'[r].outJar = {}
                /\ DOMAIN banned' = DOMAIN banned \cup reqs[r].cookie]_vars

\* C17 witness: one Logout has revoked its token and returned 200 without
\* the cookie; a Logout presenting a string that is no token has been
\* refused, got its jar back, and has added nothing
C17_Witness ==
    \E r1, r2 \in Reqs :
        /\ IsDone(r1, "logout") /\ reqs[r1].status = 200
        /\ reqs[r1].outJar = {} /\ DOMAIN banned = reqs[r1].cookie
        /\ IsDone(r2, "logout") /\ reqs[r2].jar = {BadToken}
        /\ reqs[r2].status = 401 /\ reqs[r2].error = "InvalidToken"
        /\ reqs[r2].outJar = reqs[r2].jar

\* the request r, a verify-token or a Logout with a cookie, starts in this
\* step (and runs validate_token in it)
ValidateRuns(r) ==
    /\ reqs[r].pc = "idle"
    /\ \/ reqs'[r].kind = "verify_token"
       \/ reqs'[r].kind = "logout" /\ reqs'[r].jar # {}

\* the token request r presents
Presented(req) == IF req.kind = "logout" THEN req.jar ELSE req.cookie

C19_StoreFailureReported ==
    \A r \in Reqs :
        /\ reqs[r].pc = "done" /\ reqs[r].kind \in {"verify_token", "logout"}
        /\ reqs[r].cause = "StoreError"
        => reqs[r].status = 500 /\ reqs[r].error = "UnexpectedError"

\* TwoFACodeStore::get_code: the (attempt id, code) stored for email
get_code(email) == [id |-> codes[email].id, code |-> codes[email].code]

\* C20: the 2FA code store holds one challenge per email, that of the last
\* add_code for the email: whenever get_code finds a challenge it is the
\* (attempt id, code) of the most recent add_code, and right after an
\* add_code get_code finds exactly what was put.
C20_LastPutWins ==
    /\ \A e \in DOMAIN codes :
          e \in DOMAIN hist.lastPut /\ get_code(e) = hist.lastPut[e]
    /\ \A r \in Reqs :
          reqs[r].kind = "login" /\ reqs[r].pc = "send_email"
          /\ hist.lastPut[reqs[r].email].id = reqs[r].id
          /\ reqs[r].email \in DOMAIN codes
          => get_code(reqs[r].email) = [id |-> reqs[r].id, code |-> reqs[r].code]

\* C20 witness: two Logins have put challenges with different codes for
\* one email, and the store holds the second
C20_Witness ==
    \E e \in DOMAIN codes : \E l1, l2 \in StoredFor(e) :
        /\ l1.id < l2.id /\ l1.code # l2.code
        /\ hist.lastPut[e].id = l2.id
        /\ get_code(e) = [id |-> l2.id, code |-> l2.code]

\* a Verify2FA starts as request r and finds its challenge in the store
Verify2FAMatches(r) ==
    /\ reqs[r].pc = "idle"
    /\ reqs'[r].kind = "verify_2fa" /\ reqs'[r].pc = "remove_code"

\* C21: a challenge is not returned by get_code, and not redeemed by a
\* Verify2FA, once ten minutes have passed since its add_code, with the
\* in-memory store as with the Redis store.
C21_ChallengeExpires ==
    [][\A r \in Reqs :
          Verify2FAMatches(r) =>
              now < codes[reqs'[r].email].at + TEN_MINUTES_IN_SECONDS]_vars

\* the send_email of Login r fails in this step
DeliveryFails(r) ==
    /\ reqs[r].kind = "login" /\ reqs[r].pc = "send_email"
    /\ reqs'[r].pc = "done" /\ reqs'[r].cause = "DeliveryError"

\* C22: when send_email fails in a 2FA Login, the Login answers 500
\* UnexpectedError without an attempt id and without a cookie, and the
\* code store is left as it was: the challenge the Login has put, which
\* replaced any earlier one for the email, is still there.
C22_DeliveryFailure ==
    [][\A r \in Reqs :
          DeliveryFails(r) =>
              /\ reqs'[r].status = 500 /\ reqs'[r].error = "UnexpectedError"
              /\ reqs'[r].body = NoBody /\ reqs'[r].outJar = {}
              /\ codes' = codes
              /\ get_code_found(reqs[r].email)
                 /\ hist.lastPut[reqs[r].email].id = reqs[r].id
                 => /\ get_code_found(reqs[r].email)'
                    /\ get_code(reqs[r].email)' =
                          [id |-> reqs[r].id, code |-> reqs[r].code]]_vars

\* C22 witness: a second Login for an email has failed at send_email, and
\* the store holds its challenge, not the one of the first Login
C22_Witness ==
    \E r \in Reqs : \E l1 \in StoredFor(reqs[r].email) :
        /\ IsDone(r, "login") /\ reqs[r].cause = "DeliveryError"
        /\ reqs[r].status = 500
        /\ l1.id < reqs[r].id /\ l1.code # reqs[r].code
        /\ get_code_found(reqs[r].email)
        /\ get_code(reqs[r].email) = [id |-> reqs[r].id, code |-> reqs[r].code]

\* C23: remove_code succeeds whether or not a challenge is stored for the
\* email; after it there is no challenge for the email, the challenges of
\* the other emails are what they were, and a second remove_code changes
\* nothing.
C23_RemoveIdempotent ==
    hist.call = "remove_code" =>
        /\ hist.result = "Ok"
        /\ DOMAIN codes = DOMAIN hist.before \ {hist.arg}
        /\ \A e \in DOMAIN codes : codes[e] = hist.before[e]
        /\ remove_code(hist.arg) = codes
        /\ remove_code_result(hist.arg) = "Ok"

\* C23 witness: remove_code was called for an email without a challenge
\* while other emails have one
C23_Witness ==
    /\ hist.call = "remove_code"
    /\ hist.arg \notin DOMAIN hist.before
    /\ DOMAIN codes # {}

\* was the token banned in the store the last call found
WasBanned(token) ==
    /\ token \in DOMAIN hist.before
    /\ Live(hist.before[token], TOKEN_TTL_SECONDS)

\* C24: add_token succeeds whether or not the token is already banned;
\* right after it check_token finds the token banned and answers for every
\* other token what it answered before, so adding a banned token again
\* changes no answer, and a second add_token leaves the store as it is.
C24_RevokeIdempotent ==
    hist.call = "add_token" /\ hist.at = now =>
        /\ hist.result = "Ok"
        /\ \A t \in StoreTokens :
              check_token(t) = (t = hist.arg \/ WasBanned(t))
        /\ add_token(hist.arg) = banned
        /\ add_token_result(hist.arg) = "Ok"

\* C24 witness: on Redis a token banned earlier and still banned was added
\* again, while another token is banned and a third is not
C24_Witness ==
    /\ hist.call = "add_token" /\ hist.at = now /\ now > 0
    /\ backend = "redis"
    /\ WasBanned(hist.arg)
    /\ \E t1, t2 \in StoreTokens \ {hist.arg} :
          check_token(t1) /\ ~check_token(t2)

\* C25: over every sequence of add_user, get_user, validate_user and
\* delete_user calls, the HashmapUserStore and the PostgresUserStore return
\* the same outcome at every call and hold the same accounts; delete_user
\* of an email that is not stored returns UserNotFound, and add_user of an
\* email that is not stored (deleted before, or never added) returns Ok.
C25_UserStoresAgree ==
    /\ hist.result = hist.pgResult
    /\ DOMAIN users = {row.email : row \in hist.table}
    /\ \A row \in hist.table :
          /\ users[row.email].requires_2fa = row.requires_2fa
          /\ verify_password_hash(row.hash, users[row.email].password)
    /\ hist.call = "delete_user" /\ hist.arg \notin DOMAIN hist.before
          => hist.result = "UserNotFound"
    /\ hist.call = "add_user" /\ hist.arg \notin DOMAIN hist.before
          => hist.result = "Ok"

\* C25 witness: an email that was stored and deleted has been added again
\* with success on both stores, next to an account with another password
C25_Witness ==
    /\ hist.call = "add_user" /\ hist.result = "Ok" /\ hist.pgResult = "Ok"
    /\ hist.arg \in DOMAIN users /\ hist.arg \in hist.deleted
    /\ \E other \in DOMAIN users \ {hist.arg} :
          users[other].password # users[hist.arg].password
    /\ \E row \in hist.table : row.email = hist.arg /\ row.hash.salt = 2

\* C26: Password::parse accepts a raw password exactly when its number of
\* characters, not of bytes, is from 8 to 128; with fewer than 8 it is
\* rejected as too short and with more than 128 as too long, and either
\* message names the bounds 8 and 128.
C26_PasswordLength ==
    hist.result # <<"none">> =>
        LET n == hist.raw.ascii + hist.raw.wide
        IN  /\ hist.result = <<"Ok">> <=> (n >= 8 /\ n <= 128)
            /\ n < 8 => hist.result = <<"Too short", 8, 128>>
            /\ n > 128 => hist.result = <<"Too long", 8, 128>>

\* C26 witness: a password of 128 characters that takes more than 128
\* bytes has been accepted
C26_Witness ==
    /\ hist.result = <<"Ok">>
    /\ hist.raw.ascii + hist.raw.wide = 128
    /\ hist.raw.wide > 0 /\ bytes_len(hist.raw) > 128

\* the owner of a project, and of the project a member is in (no one when
\* the project is not in projects_list)
OwnerOfProject(project_id) ==
    {pr.user_id : pr \in {x \in hist.projects_list : x.project_id = project_id}}

OwnerOfMember(member_id) ==
    UNION {OwnerOfProject(m.project_id) :
              m \in {x \in hist.members : x.member_id = member_id}}

\* the owner of what a project request names: add-member names a project,
\* the others a member
TargetOwners(req) ==
    IF req.kind = "add_member" THEN OwnerOfProject(req.target)
    ELSE OwnerOfMember(req.target)

ProjectKinds == {"get_member", "update_member", "add_member", "add_shift"}

\* the handler of request r returns in this step
Responds(r) == reqs[r].pc # "done" /\ reqs'[r].pc = "done"

\* C27: get-member, update-member, add-member and add-shift by an
\* authenticated user on a member or project that another user owns return
\* 404 without any of the stored data and leave the tables as they were;
\* and whenever one of these requests changes or adds a member or adds a
\* shift, the requester owns the enclosing project.
C27_TenantIsolation ==
    [][\A r \in Reqs :
          reqs'[r] # reqs[r] /\ reqs'[r].kind \in ProjectKinds =>
              /\ /\ Responds(r) /\ reqs'[r].status # 401
                 /\ TargetOwners(reqs'[r]) # {}
                 /\ reqs'[r].email \notin TargetOwners(reqs'[r])
                 => /\ reqs'[r].status = 404 /\ reqs'[r].body = NoBody
                    /\ hist'.members = hist.members
                    /\ hist'.shifts = hist.shifts
                    /\ hist'.projects_list = hist.projects_list
              /\ Responds(r) /\ reqs'[r].status = 200
                 /\ reqs'[r].kind = "get_member"
                 => reqs'[r].email \in OwnerOfMember(reqs'[r].target)
              /\ \A m \in (hist.members \ hist'.members)
                          \cup (hist'.members \ hist.members) :
                    reqs'[r].email \in OwnerOfProject(m.project_id)
              /\ \A sh \in hist'.shifts \ hist.shifts :
                    reqs'[r].email \in OwnerOfMember(sh.member_id)]_vars

\* C27 witness: e2 has asked to rename member 3, to add a member to project
\* 1 and to add a shift to member 3, all of e1, and got 404 each time;
\* member 3 and its shifts are what they were
C27_Witness ==
    /\ \E r1, r2, r3 \in Reqs :
          /\ IsDone(r1, "update_member") /\ reqs[r1].target = 3
          /\ IsDone(r2, "add_member") /\ reqs[r2].target = 1
          /\ IsDone(r3, "add_shift") /\ reqs[r3].target = 3
          /\ \A r \in {r1, r2, r3} :
                reqs[r].email = "e2" /\ reqs[r].status = 404
    /\ OwnerOfMember(3) = {"e1"}
    /\ hist.members = InitProjectsHist.members
    /\ hist.shifts = InitProjectsHist.shifts

\* the projects a user has owned, the members there have been in them and
\* the shifts of these members that the tables still hold
RemainingOf(user_id) ==
    LET owned == {pr.project_id :
                     pr \in {x \in hist.everProjects : x.user_id = user_id}}
        members == {m.member_id :
                       m \in {x \in hist.everMembers : x.project_id \in owned}}
    IN  [projects |-> {x \in hist.projects_list : x.user_id = user_id},
         members |-> {x \in hist.members : x.project_id \in owned},
         shifts |-> {x \in hist.shifts : x.member_id \in members}]

C29_TokenBeforeRemove ==
    [][\A r \in Reqs :
          /\ Verify2FAMatches(r) =>
                /\ \E t \in reqs'[r].cookie :
                      /\ t.sub = reqs'[r].email /\ t.sig
                      /\ t.exp = now + TOKEN_TTL_SECONDS
                /\ UNCHANGED <<users, codes, banned, now>>
                /\ get_code_found(reqs'[r].email)
                /\ get_code(reqs'[r].email) =
                      [id |-> reqs'[r].id, code |-> reqs'[r].code]
                /\ ~Mismatch(reqs'[r].id, reqs'[r].code, codes'[reqs'[r].email])
          /\ reqs[r].kind = "verify_2fa" /\ reqs[r].pc # "done"
             /\ reqs'[r].pc = "done" /\ codes' # codes
             => /\ reqs[r].pc = "remove_code"
                /\ \E t \in reqs[r].cookie : t.sub = reqs[r].email /\ t.sig]_vars

\* C29 witness: a Verify2FA holds its token and has not called remove_code
\* yet; the challenge it presented is in the store
C29_Witness ==
    \E r \in Reqs :
        /\ reqs[r].kind = "verify_2fa" /\ reqs[r].pc = "remove_code"
        /\ reqs[r].cookie # {}
        /\ get_code_found(reqs[r].email)
        /\ get_code(reqs[r].email) = [id |-> reqs[r].id, code |-> reqs[r].code]

\* C30: the user store lock is held per operation: while a Login is at its
\* add_code or at its send_email, a delete-user request that waits for the
\* user store write lock can take it.
C30_LockPerOperation ==
    \A r, w \in Reqs :
        /\ reqs[r].kind = "login"
        /\ reqs[r].pc \in {"add_code", "send_email"}
        /\ reqs[w].kind = "delete_user" /\ reqs[w].pc = "delete_user"
        => ENABLED DeleteUserDeleteUser(w)

\* C31: the Redis banned token store keeps the entry of a revoked token for
\* the token's remaining lifetime: the entry expires at the instant the
\* token's own expiry is reached.
C31_BanTtlIsRemainingLifetime ==
    backend = "redis" =>
        \A t \in DOMAIN banned :
            t \in IssuedTokens => banned[t] + TOKEN_TTL_SECONDS = t.exp

\* the banned token store holds a live entry for the token
HoldsBan(token) ==
    /\ token \in DOMAIN banned
    /\ Live(banned[token], TOKEN_TTL_SECONDS)

\* verify-token or Logout request r arrives and runs validate_token
Validates(r) ==
    /\ reqs[r].kind = "none"
    /\ reqs'[r].kind \in {"verify_token", "logout"}
    /\ reqs'[r].jar \cup reqs'[r].cookie # {}

\* C32: validate_token fails closed: a request gets past validate_token
\* only if the banned token store holds no entry for its token and the
\* check did not fail; a request whose check found the token banned or
\* failed ends with InvalidToken and is never answered with success.
C32_FailsClosed ==
    [][\A r \in Reqs :
          Validates(r) =>
              /\ reqs'[r].status = 200 \/ reqs'[r].pc = "add_token"
                 => /\ \A t \in reqs'[r].jar \cup reqs'[r].cookie : ~HoldsBan(t)
                    /\ reqs'[r].cause = ""
              /\ (\/ reqs'[r].cause \in {"StoreError", "BannedToken"}
                  \/ \E t \in reqs'[r].jar \cup reqs'[r].cookie : HoldsBan(t))
                 => /\ reqs'[r].pc = "done"
                    /\ reqs'[r].status = 401
                    /\ reqs'[r].error = "InvalidToken"
                    /\ reqs'[r].outJar = reqs'[r].jar]_vars

\* C32 witness: a request whose check_token failed has been refused, its
\* token being one that a Login issued and that is not banned
C32_Witness ==
    \E r \in Reqs :
        /\ reqs[r].cause = "StoreError" /\ reqs[r].status = 401
        /\ \E t \in reqs[r].jar \cup reqs[r].cookie :
              t \in IssuedTokens /\ ~HoldsBan(t)

\* the add_code calls that Login request r has made
PutsOf(r) == {p \in hist.stored : p.req = r}

C34_TokenOnlyForAccount ==
    [][\A r \in Reqs :
          Verify2FAMatches(r) => reqs'[r].email \in DOMAIN users]_vars

\* C35: when a delete-user request for an email returns success,
\* validate_token fails for every session token issued for that email,
\* whichever of them the request presented.
C35_DeleteRevokesAllTokens ==
    [][\A r \in Reqs :
          /\ reqs[r].kind = "delete_user" /\ reqs[r].pc # "done"
          /\ reqs'[r].pc = "done" /\ reqs'[r].status = 200
          => \A t \in IssuedTokens :
                t.sub = reqs[r].email => validate_token(t)' # "Ok"]_vars

\* C36: a successful Verify2FA removes only the challenge it redeemed: when
\* its remove_code runs while the store holds another challenge for the
\* email, put by a later Login, that challenge stays in the store.
C36_RemovesOnlyRedeemed ==
    [][\A r \in Reqs :
          /\ reqs[r].kind = "verify_2fa" /\ reqs[r].pc = "remove_code"
          /\ reqs'[r].pc = "done" /\ reqs'[r].status = 200
          /\ reqs[r].email \in DOMAIN codes
          /\ get_code(reqs[r].email) # [id |-> reqs[r].id, code |-> reqs[r].code]
          => /\ reqs[r].email \in DOMAIN codes'
             /\ codes'[reqs[r].email] = codes[reqs[r].email]]_vars

\* C37: of the Logout requests that present the same token, concurrent or
\* not, at most one returns success.
C37_AtMostOneLogout ==
    \A r1, r2 \in Reqs :
        /\ IsDone(r1, "logout") /\ reqs[r1].status = 200
        /\ IsDone(r2, "logout") /\ reqs[r2].status = 200
        /\ reqs[r1].cookie = reqs[r2].cookie
        => r1 = r2

\* the remove_code of Verify2FA r returns in this step
RemoveReturns(r) ==
    /\ reqs[r].kind = "verify_2fa" /\ reqs[r].pc = "remove_code"
    /\ reqs'[r].pc = "done"

\* C38: a Verify2FA answers 200 with the session cookie only when its
\* remove_code succeeded, the entry of its email then being gone; when
\* remove_code fails it answers 500 UnexpectedError, returns the jar it was
\* given, without the session cookie, and the code store is as it was, so
\* that a challenge it held is still there.
C38_RemoveFailure ==
    [][\A r \in Reqs :
          RemoveReturns(r) =>
              /\ reqs'[r].status = 200 =>
                    /\ reqs'[r].cause = ""
                    /\ reqs[r].email \notin DOMAIN codes'
                    /\ reqs'[r].outJar = reqs[r].cookie
              /\ reqs'[r].cause = "StoreError" =>
                    /\ reqs'[r].status = 500
                    /\ reqs'[r].error = "UnexpectedError"
                    /\ reqs'[r].outJar = reqs[r].jar
                    /\ reqs'[r].outJar \cap reqs[r].cookie = {}
                    /\ codes' = codes]_vars

\* C38 witness: the remove_code of a Verify2FA has failed, and the store
\* holds the challenge the Verify2FA presented
C38_Witness ==
    \E r \in Reqs :
        /\ IsDone(r, "verify_2fa") /\ reqs[r].cause = "StoreError"
        /\ reqs[r].status = 500 /\ reqs[r].cookie # {}
        /\ get_code_found(reqs[r].email)
        /\ get_code(reqs[r].email) = [id |-> reqs[r].id, code |-> reqs[r].code]

\* every handler that has started has returned
AllReturned ==
    \A r \in LockReqs : reqs[r].kind # "none" => reqs[r].pc = "done"

\* C39: no request waits forever on a lock: whichever requests are running
\* at some moment, a moment comes at which all of them have returned.
C39_NoRequestWaitsForever == []<>AllReturned

\* C39 witness: a Login holds the user store read guard and the code store
\* write guard at once while another request waits for the user store
C39_Witness ==
    \E l \in LockReqs :
        /\ [lock |-> "user_store", req |-> l, mode |-> "read"] \in hist.held
        /\ [lock |-> "two_fa_code_store", req |-> l, mode |-> "write"]
              \in hist.held
        /\ hist.queue["user_store"] # << >>

====
